---- MODULE Spec2Model ----
(***************************************************************************)
(* suitop: checkpoint-signature accounting engine.                         *)
(*                                                                         *)
(* Spec     the Checkpoint Processor (Processor.Run) with the Uptime       *)
(*          Ledger (StatsManager), the Committee Reconciler                *)
(*          (Loader.LoadEpochValidatorData), the Bitmap Matcher and the    *)
(*          dataset accumulator; events and RPC answers are inputs.        *)
(* SpecSub  the Stream Resilience Loop (SubscribeToCheckpoints) with its   *)
(*          output channel, the shutdown signal and a consumer; what the   *)
(*          gRPC stream returns is an input.                               *)
(* SpecSubFair  SpecSub with the loop's steps weakly fair.                 *)
(* SpecLoad one call of Loader.LoadEpochValidatorData on answers of the    *)
(*          node drawn from LoaderCalls.                                   *)
(***************************************************************************)
EXTENDS Integers, Sequences, FiniteSets, TLC

VARIABLES
    \* Processor (processor.go:22-31) and its collaborators
    currentEpoch,       \* p.currentEpoch
    committee,          \* p.committee
    statsManager,       \* p.statsManager: validatorStats, totalCheckpointsWithSig
    reportCount,        \* p.reportCount
    printed,            \* calls of printReport so far
    dmData,             \* p.dataset.data (NoData is nil)
    files,              \* dataset files written by finishEpoch
    uiChan,             \* the snapshot channel handed to Run
    procState,          \* where Run is: running, sending, panicked, stopped
    pendingSnapshot,    \* the snapshot a blocked "uiChan <- msg" holds
    datasetOn,          \* p.dataset != nil
    uiOn,               \* uiChan != nil
    ctxDone,            \* ctx.Done() is closed
    \* bookkeeping of the run, not program state
    nEvents,            \* events taken from checkpointStream so far
    lastEvent,          \* the event handled last
    lastReload,         \* what the last event did to the committee: none, ok, failed
    lastLoaded,         \* what LoadEpochValidatorData returned to the last event
    expected,           \* per identity key, the events it was credited for
    snapshotsSent,      \* snapshots put on uiChan so far
    recorded,           \* the checkpoints handed to the dataset: epoch given, seq
    \* SubscribeToCheckpoints (subscriber.go:21-125)
    pc,                 \* where the loop is: Idle (35), Subscribing (44),
                        \* SubscribeBackoff (60), Streaming (74), Sending (106),
                        \* Backoff (117), Terminated (returned)
    checkpointChan,     \* the buffered channel of main, checkpoints not yet taken
    chanClosed,         \* close(checkpointChan) has run
    pendingResp,        \* the checkpoint the select at line 106 is sending
    lastErr,            \* the error SubscribeCheckpoints or Recv returned last
    \* bookkeeping of the run, not program state
    received,           \* the checkpoint-carrying responses Recv returned, in order
    receivedFrom,       \* per response Recv returned, the stream it came from
    consumed,           \* the checkpoints the consumer took from checkpointChan
    attempts,           \* calls of SubscribeCheckpoints so far
    subscriptions,      \* calls of SubscribeCheckpoints that returned a stream
    nRecv,              \* responses Recv returned so far
    retryDelay,         \* cfg.RetryDelay, in seconds
    waited,             \* seconds the running time.After has been waiting
    \* one call of LoadEpochValidatorData on chosen answers (SpecLoad)
    load,               \* targetEpoch, world, done, queried, result
    \* one DatasetManager fed with the checkpoints of an epoch (SpecDataset)
    ds,                 \* dm, committee, epoch, seq, history, closed
    \* the goroutine of main that relays snapshots to the UI (SpecShutdown)
    relayDone,          \* it has returned
    \* a caller of the StatsManager that keeps what GetAllStats gave it (SpecLedger)
    view,               \* the maps it was given, none or one
    ledgerCall,         \* the call made last on the StatsManager: op, key,
                        \* committee, and the ledger it found (before)
    \* one call of IsValidatorSigned (SpecMatcher)
    match,              \* bitmap, validatorIndex, done, result
    \* the Model of the dashboard (SpecDashboard)
    dashboard           \* epoch, committee, stats, totalValidators, ...

procVars == <<currentEpoch, committee, statsManager, reportCount, printed, dmData, files,
              uiChan, procState, pendingSnapshot, datasetOn, uiOn,
              nEvents, lastEvent, lastReload, lastLoaded, expected, snapshotsSent,
              recorded>>

timerVars == <<retryDelay, waited>>

subVars == <<pc, checkpointChan, chanClosed, pendingResp, lastErr,
             received, receivedFrom, consumed, attempts, subscriptions, nRecv,
             timerVars>>

callVars == <<load, ds, relayDone, view, ledgerCall, match, dashboard>>

vars == <<procVars, ctxDone, subVars, callVars>>

(***************************************************************************)
(* Bounds of the model.                                                    *)
(***************************************************************************)
MaxEvents == 2          \* events the processor takes from the stream
MaxEpoch == 3           \* largest epoch an event carries
MaxIndex == 2           \* largest signer index an event carries
UIChanCap == 1          \* capacity of uiChan (200 in main)
MaxSubscribes == 3      \* calls of SubscribeCheckpoints the loop makes
MaxRecv == 3            \* responses the streams return in all
ChanCap == 1            \* capacity of checkpointChan (100 in main)
MaxCommittee == 2       \* committee entries in the answers of SpecLoad

(***************************************************************************)
(* strconv.ParseUint / FormatUint on decimal strings.                      *)
(***************************************************************************)
Digits == <<"0", "1", "2", "3", "4", "5", "6", "7", "8", "9">>

IsDigit(c) == \E i \in 1..10 : Digits[i] = c

DigitVal(c) == (CHOOSE i \in 1..10 : Digits[i] = c) - 1

RECURSIVE ParseDigits(_, _)
ParseDigits(s, acc) ==
    IF s = "" THEN [ok |-> TRUE, val |-> acc]
    ELSE LET c == SubSeq(s, 1, 1)
         IN  IF ~IsDigit(c) THEN [ok |-> FALSE, val |-> 0]
             ELSE ParseDigits(SubSeq(s, 2, Len(s)), acc * 10 + DigitVal(c))

ParseUint(s) == IF s = "" THEN [ok |-> FALSE, val |-> 0] ELSE ParseDigits(s, 0)

RECURSIVE FormatUint(_)
FormatUint(n) ==
    IF n < 10 THEN Digits[n + 1] ELSE FormatUint(n \div 10) \o Digits[(n % 10) + 1]

(***************************************************************************)
(* validator package: ValidatorInfo, ShortPubKey, NewValidatorInfo.        *)
(***************************************************************************)
ShortKeyLen == 10

ShortPubKey(pubKey) ==
    IF Len(pubKey) > ShortKeyLen THEN SubSeq(pubKey, 1, ShortKeyLen) ELSE pubKey

RECURSIVE TrimLeft(_)
TrimLeft(s) ==
    IF s # "" /\ SubSeq(s, 1, 1) = " " THEN TrimLeft(SubSeq(s, 2, Len(s))) ELSE s

RECURSIVE TrimRight(_)
TrimRight(s) ==
    IF s # "" /\ SubSeq(s, Len(s), Len(s)) = " "
    THEN TrimRight(SubSeq(s, 1, Len(s) - 1)) ELSE s

TrimSpace(s) == TrimRight(TrimLeft(s))

NewValidatorInfo(name, suiAddress, protocolPubkeyBytes, bitmapIndex) ==
    [Name |-> TrimSpace(name), SuiAddress |-> suiAddress,
     ProtocolPubkeyBytes |-> protocolPubkeyBytes, BitmapIndex |-> bitmapIndex]

PlaceholderInfo(pubKey, bitmapIdx) ==
    [Name |-> "Unknown Validator (Pubkey: " \o ShortPubKey(pubKey) \o "...)",
     SuiAddress |-> "unknown-sui-address-for-" \o ShortPubKey(pubKey),
     ProtocolPubkeyBytes |-> pubKey, BitmapIndex |-> bitmapIdx]

(***************************************************************************)
(* rpc package: the two JSON-RPC calls, each answered by a response the    *)
(* node chooses: err is a transport or JSON-RPC error.                     *)
(***************************************************************************)
GetLatestSuiSystemState(resp) ==
    IF resp.err \/ resp.Epoch = "" THEN [err |-> TRUE, result |-> resp]
    ELSE [err |-> FALSE, result |-> resp]

GetCommitteeInfo(epochStr, resp) ==
    IF resp.err \/ resp.Epoch = "" \/ ~ParseUint(resp.Epoch).ok
    THEN [err |-> TRUE, result |-> resp]
    ELSE [err |-> FALSE, result |-> resp]

(***************************************************************************)
(* Loader.LoadEpochValidatorData: the Committee Reconciler.                *)
(***************************************************************************)
LoadFailed == [err |-> TRUE, committee |-> <<>>, epoch |-> 0]

RECURSIVE BuildActiveValidatorsMap(_, _)
BuildActiveValidatorsMap(activeValidators, m) ==
    IF activeValidators = <<>> THEN m
    ELSE LET valMeta == Head(activeValidators)
         IN  BuildActiveValidatorsMap(Tail(activeValidators),
                 IF valMeta.ProtocolPubkeyBytes = "" THEN m
                 ELSE (valMeta.ProtocolPubkeyBytes :> valMeta) @@ m)

EmptyMap == [k \in {} |-> 0]

\* a join that numbers the committee from 1
JoinCommitteeOneBased(committeePubKeysOrdered, activeValidatorsMap) ==
    [i \in 1..Len(committeePubKeysOrdered) |->
        LET pubKey == committeePubKeysOrdered[i]
        IN  IF pubKey \in DOMAIN activeValidatorsMap
            THEN NewValidatorInfo(activeValidatorsMap[pubKey].Name,
                                  activeValidatorsMap[pubKey].SuiAddress, pubKey, i)
            ELSE PlaceholderInfo(pubKey, i)]

\* a join that leaves out the committee keys it does not find in the metadata
JoinCommitteeSkipMissing(committeePubKeysOrdered, activeValidatorsMap) ==
    LET found == { i \in 1..Len(committeePubKeysOrdered) :
                      committeePubKeysOrdered[i] \in DOMAIN activeValidatorsMap }
        RECURSIVE Rank(_)
        Rank(i) == Cardinality({ j \in found : j <= i })
    IN  [n \in 1..Cardinality(found) |->
            LET i == CHOOSE j \in found : Rank(j) = n
                pubKey == committeePubKeysOrdered[i]
            IN  NewValidatorInfo(activeValidatorsMap[pubKey].Name,
                                 activeValidatorsMap[pubKey].SuiAddress, pubKey, i - 1)]

JoinCommittee(committeePubKeysOrdered, activeValidatorsMap) ==
    [i \in 1..Len(committeePubKeysOrdered) |->
        LET pubKey == committeePubKeysOrdered[i]
        IN  IF pubKey \in DOMAIN activeValidatorsMap
            THEN NewValidatorInfo(activeValidatorsMap[pubKey].Name,
                                  activeValidatorsMap[pubKey].SuiAddress, pubKey, i - 1)
            ELSE PlaceholderInfo(pubKey, i - 1)]

MalformedEntry(valData) == ~(Len(valData) > 0 /\ valData[1] # "")

\* the voting power of a committee entry: its second field, 0 when the field
\* is missing or is no number (ValidatorInfo.VotingPower, "from committee info")
VotingPowerOf(valData) ==
    IF Len(valData) > 1 /\ ParseUint(valData[2]).ok THEN ParseUint(valData[2]).val
    ELSE 0

\* the records of the join, each with the voting power of its committee entry
WithVotingPower(c, validators) ==
    [i \in 1..Len(c) |-> [VotingPower |-> VotingPowerOf(validators[i])] @@ c[i]]

\* a call that asks the node for the epoch after the one it resolved
EpochToQueryNext(targetEpoch, w) ==
    IF targetEpoch = 0
    THEN LET pre == GetLatestSuiSystemState(w.sysPre)
         IN  IF pre.err \/ ~ParseUint(pre.result.Epoch).ok THEN ""
             ELSE FormatUint(ParseUint(pre.result.Epoch).val + 1)
    ELSE FormatUint(targetEpoch + 1)

\* loader lines 189-208, epochToQueryStr: the epoch suix_getCommitteeInfo is
\* called with, "" when the call is not reached
EpochToQuery(targetEpoch, w) ==
    IF targetEpoch = 0
    THEN LET pre == GetLatestSuiSystemState(w.sysPre)
         IN  IF pre.err \/ ~ParseUint(pre.result.Epoch).ok THEN ""
             ELSE pre.result.Epoch
    ELSE FormatUint(targetEpoch)

\* a load that resolves the epoch to the one the metadata reports
LoadEpochValidatorDataMetaEpoch(targetEpoch, w) ==
    LET pre == GetLatestSuiSystemState(w.sysPre)
        preEpoch == ParseUint(pre.result.Epoch)
        preFailed == targetEpoch = 0 /\ (pre.err \/ ~preEpoch.ok)
        actualEpoch == IF targetEpoch = 0 THEN preEpoch.val ELSE targetEpoch
        epochToQueryStr ==
            IF targetEpoch = 0 THEN pre.result.Epoch ELSE FormatUint(targetEpoch)
        info == GetCommitteeInfo(epochToQueryStr, w.committeeInfo)
        validators == info.result.Validators
        meta == GetLatestSuiSystemState(w.sysMeta)
    IN  IF preFailed THEN LoadFailed
        ELSE IF info.err THEN LoadFailed
        ELSE IF \E i \in 1..Len(validators) : MalformedEntry(validators[i])
             THEN LoadFailed
        ELSE IF meta.err \/ ~ParseUint(meta.result.Epoch).ok THEN LoadFailed
        ELSE [err |-> FALSE,
              committee |-> WithVotingPower(
                  JoinCommittee(
                      [i \in 1..Len(validators) |-> validators[i][1]],
                      BuildActiveValidatorsMap(meta.result.ActiveValidators, EmptyMap)),
                  validators),
              epoch |-> ParseUint(meta.result.Epoch).val]

LoadEpochValidatorData(targetEpoch, w) ==
    LET pre == GetLatestSuiSystemState(w.sysPre)
        preEpoch == ParseUint(pre.result.Epoch)
        preFailed == targetEpoch = 0 /\ (pre.err \/ ~preEpoch.ok)
        actualEpoch == IF targetEpoch = 0 THEN preEpoch.val ELSE targetEpoch
        epochToQueryStr == EpochToQuery(targetEpoch, w)
        info == GetCommitteeInfo(epochToQueryStr, w.committeeInfo)
        validators == info.result.Validators
        meta == GetLatestSuiSystemState(w.sysMeta)
    IN  IF preFailed THEN LoadFailed
        ELSE IF info.err THEN LoadFailed
        ELSE IF \E i \in 1..Len(validators) : MalformedEntry(validators[i])
             THEN LoadFailed
        ELSE IF meta.err \/ ~ParseUint(meta.result.Epoch).ok THEN LoadFailed
        ELSE [err |-> FALSE,
              committee |-> WithVotingPower(
                  JoinCommittee(
                      [i \in 1..Len(validators) |-> validators[i][1]],
                      BuildActiveValidatorsMap(meta.result.ActiveValidators, EmptyMap)),
                  validators),
              epoch |-> actualEpoch]

(***************************************************************************)
(* Bitmap Matcher.                                                         *)
(***************************************************************************)
\* A Go int of 64 bits is the record [neg, hi, lo] of the value
\* (hi * 2^32 + lo), negated when neg; lo is below 2^32.  IntValue is the
\* record of an integer of the model, all of which are below 2^32.
IntValue(n) == [neg |-> n < 0, hi |-> 0, lo |-> IF n < 0 THEN 0 - n ELSE n]

\* stats.go:227, uint32(validatorIndex) of a validatorIndex that is not
\* negative: the low 32 bits
Uint32(v) == v.lo

\* stats.go:222-234; the elements of bitmap are uint32
IsValidatorSigned(bitmap, validatorIndex) ==
    /\ ~validatorIndex.neg
    /\ LET targetIndex == Uint32(validatorIndex)
       IN  \E i \in 1..Len(bitmap) : bitmap[i] = targetIndex

(***************************************************************************)
(* StatsManager: the Uptime Ledger.  sm is the record                      *)
(* [validatorStats, totalCheckpointsWithSig].                              *)
(***************************************************************************)
NewStatsManager == [validatorStats |-> EmptyMap, totalCheckpointsWithSig |-> 0]

ZeroStats == [AttestedCount |-> 0, SignedCurrent |-> FALSE]

\* a reload that starts every member of the committee from zero
InitializeCommitteeStatsOverwrite(sm, c) ==
    [sm EXCEPT !.validatorStats =
        [k \in { c[i].SuiAddress : i \in 1..Len(c) } |-> ZeroStats] @@ @]

\* an initialisation that starts the count of events over
InitializeCommitteeStatsResetTotal(sm, c) ==
    [validatorStats |->
        [k \in { c[i].SuiAddress : i \in 1..Len(c) } \ DOMAIN sm.validatorStats |->
            ZeroStats] @@ sm.validatorStats,
     totalCheckpointsWithSig |-> 0]

\* an initialisation that keeps the entries of the members of the committee
\* and drops every other entry
InitializeCommitteeStatsOnlyMembers(sm, c) ==
    [sm EXCEPT !.validatorStats =
        [k \in { c[i].SuiAddress : i \in 1..Len(c) } |->
            IF k \in DOMAIN sm.validatorStats THEN sm.validatorStats[k]
            ELSE ZeroStats]]

\* an initialisation that also clears the signed flag of the entries it finds
InitializeCommitteeStatsClearFlag(sm, c) ==
    [sm EXCEPT !.validatorStats =
        [k \in { c[i].SuiAddress : i \in 1..Len(c) } |->
            IF k \in DOMAIN sm.validatorStats
            THEN [sm.validatorStats[k] EXCEPT !.SignedCurrent = FALSE]
            ELSE ZeroStats] @@ @]

RECURSIVE InitializeCommitteeStats(_, _)
InitializeCommitteeStats(sm, c) ==
    IF c = <<>> THEN sm
    ELSE LET a == Head(c).SuiAddress
         IN  InitializeCommitteeStats(
                 IF a \in DOMAIN sm.validatorStats THEN sm
                 ELSE [sm EXCEPT !.validatorStats = (a :> ZeroStats) @@ @],
                 Tail(c))

\* a reset that clears the flag of every entry of the ledger
ResetSignedCurrentAll(sm, c) ==
    [sm EXCEPT !.validatorStats =
        [k \in DOMAIN @ |-> [@[k] EXCEPT !.SignedCurrent = FALSE]]]

\* stats.go:55-62
RECURSIVE ResetSignedCurrent(_, _)
ResetSignedCurrent(sm, c) ==
    IF c = <<>> THEN sm
    ELSE LET a == Head(c).SuiAddress
         IN  ResetSignedCurrent(
                 IF a \in DOMAIN sm.validatorStats
                 THEN [sm EXCEPT !.validatorStats[a].SignedCurrent = FALSE]
                 ELSE sm,
                 Tail(c))

\* a recordSigned that opens an entry for a key the ledger does not know
UpdateValidatorSignedCreate(sm, suiAddress) ==
    IF suiAddress \in DOMAIN sm.validatorStats
    THEN [sm EXCEPT !.validatorStats[suiAddress] =
             [AttestedCount |-> @.AttestedCount + 1, SignedCurrent |-> TRUE]]
    ELSE [sm EXCEPT !.validatorStats =
             (suiAddress :> [AttestedCount |-> 1, SignedCurrent |-> TRUE]) @@ @]

\* stats.go:65-71
UpdateValidatorSigned(sm, suiAddress) ==
    IF suiAddress \in DOMAIN sm.validatorStats
    THEN [sm EXCEPT !.validatorStats[suiAddress] =
             [AttestedCount |-> @.AttestedCount + 1, SignedCurrent |-> TRUE]]
    ELSE sm

IncrementTotalCheckpointsWithSig(sm) ==
    [sm EXCEPT !.totalCheckpointsWithSig = @ + 1]

(***************************************************************************)
(* DatasetManager.  dm is the record [data, files]; NoData is a nil data.  *)
(***************************************************************************)
NoData == [Epoch |-> -1]

SetBit(b, k) == IF (b \div (2 ^ k)) % 2 = 1 THEN b ELSE b + 2 ^ k

NewEntry(v) ==
    [Name |-> v.Name, Address |-> v.SuiAddress, Signed |-> 0, Total |-> 0,
     Bitmap |-> <<>>]

appendBit(v, signed) ==
    LET byteIndex == v.Total \div 8
        grown == IF byteIndex >= Len(v.Bitmap) THEN Append(v.Bitmap, 0) ELSE v.Bitmap
    IN  [v EXCEPT !.Bitmap = IF signed
                             THEN [grown EXCEPT ![byteIndex + 1] = SetBit(@, v.Total % 8)]
                             ELSE grown,
                  !.Signed = IF signed THEN @ + 1 ELSE @,
                  !.Total = @ + 1]

RECURSIVE AddEntries(_, _)
AddEntries(data, c) ==
    IF c = <<>> THEN data
    ELSE AddEntries([data EXCEPT
                        !.Validators = (Head(c).SuiAddress :> NewEntry(Head(c))) @@ @,
                        !.Order = Append(@, Head(c).SuiAddress)],
                    Tail(c))

startEpoch(dm, epoch, c, startSeq) ==
    [dm EXCEPT !.data = AddEntries([Epoch |-> epoch, StartCheckpoint |-> startSeq,
                                    EndCheckpoint |-> startSeq,
                                    Validators |-> EmptyMap, Order |-> <<>>], c)]

\* a flush that fails to create its file: the data is dropped
finishEpochNoFile(dm) == [dm EXCEPT !.data = NoData]

finishEpoch(dm) ==
    IF dm.data = NoData THEN dm
    ELSE [data |-> NoData,
          files |-> Append(dm.files,
              [Epoch |-> dm.data.Epoch,
               StartCheckpoint |-> dm.data.StartCheckpoint,
               EndCheckpoint |-> dm.data.EndCheckpoint,
               Validators |-> [i \in 1..Len(dm.data.Order) |->
                                  dm.data.Validators[dm.data.Order[i]]]])]

RECURSIVE RecordEntries(_, _, _)
RecordEntries(data, bitmap, c) ==
    IF c = <<>> THEN data
    ELSE LET v == Head(c)
             known == v.SuiAddress \in DOMAIN data.Validators
             entry == IF known THEN data.Validators[v.SuiAddress] ELSE NewEntry(v)
             bit == appendBit(entry, IsValidatorSigned(bitmap, IntValue(v.BitmapIndex)))
         IN  RecordEntries([data EXCEPT
                               !.Validators = (v.SuiAddress :> bit) @@ @,
                               !.Order = IF known THEN @ ELSE Append(@, v.SuiAddress)],
                           bitmap, Tail(c))

\* a record that leaves the end of the range where startEpoch put it
RecordCheckpointKeepEnd(dm, epoch, seq, bitmap, c) ==
    LET dm1 == IF dm.data = NoData THEN startEpoch(dm, epoch, c, seq) ELSE dm
        dm2 == IF dm1.data.Epoch # epoch
               THEN startEpoch(finishEpoch(dm1), epoch, c, seq) ELSE dm1
    IN  [dm2 EXCEPT !.data = RecordEntries(dm2.data, bitmap, c)]

RecordCheckpoint(dm, epoch, seq, bitmap, c) ==
    LET dm1 == IF dm.data = NoData THEN startEpoch(dm, epoch, c, seq) ELSE dm
        dm2 == IF dm1.data.Epoch # epoch
               THEN startEpoch(finishEpoch(dm1), epoch, c, seq) ELSE dm1
    IN  [dm2 EXCEPT !.data = RecordEntries([dm2.data EXCEPT !.EndCheckpoint = seq],
                                           bitmap, c)]

Close(dm) == finishEpoch(dm)

(***************************************************************************)
(* Inputs: what the node answers to the JSON-RPC calls of one load, and    *)
(* the events the stream delivers.                                         *)
(***************************************************************************)
PkA == "pkA"
PkB == "pkB"
PkC == "pkC"
PkD == "pkD"
PkX == "0123456789xx"
PkY == "0123456789yy"

MetaA == [SuiAddress |-> "0xa", Name |-> " alice ", ProtocolPubkeyBytes |-> PkA]
MetaB == [SuiAddress |-> "0xb", Name |-> "bob", ProtocolPubkeyBytes |-> PkB]
MetaC == [SuiAddress |-> "0xc", Name |-> "carol", ProtocolPubkeyBytes |-> PkC]
MetaD == [SuiAddress |-> "0xd", Name |-> "dave", ProtocolPubkeyBytes |-> PkD]
MetaNoKey == [SuiAddress |-> "0xe", Name |-> "erin", ProtocolPubkeyBytes |-> ""]

SystemState(epoch, activeValidators) ==
    [err |-> FALSE, Epoch |-> epoch, ActiveValidators |-> activeValidators]

SystemStateError == [err |-> TRUE, Epoch |-> "", ActiveValidators |-> <<>>]

\* the entry at position i carries the stake 100 * i
CommitteeInfo(epoch, pubKeys) ==
    [err |-> FALSE, Epoch |-> epoch,
     Validators |-> [i \in 1..Len(pubKeys) |-> <<pubKeys[i], FormatUint(100 * i)>>]]

CommitteeInfoError == [err |-> TRUE, Epoch |-> "", Validators |-> <<>>]

World(sysPre, committeeInfo, sysMeta) ==
    [sysPre |-> sysPre, committeeInfo |-> committeeInfo, sysMeta |-> sysMeta]

AllMeta == <<MetaA, MetaB, MetaC, MetaD, MetaNoKey>>

\* What the node may answer at startup (LoadEpochValidatorData(ctx, 0)).
InitialWorlds ==
    { World(SystemState("1", AllMeta), CommitteeInfo("1", <<PkA, PkB>>),
            SystemState("2", AllMeta)),
      World(SystemState("x", AllMeta), CommitteeInfo("1", <<PkA>>),
            SystemState("1", AllMeta)) }

\* What the node may answer to a reload.
ReloadWorlds ==
    { \* a reordered committee: pkB left, pkC joined
      World(SystemStateError, CommitteeInfo("2", <<PkC, PkA>>),
            SystemState("2", AllMeta)),
      \* two committee keys missing from the metadata, equal in their first 10 bytes
      World(SystemStateError, CommitteeInfo("2", <<PkX, PkY>>),
            SystemState("3", <<MetaA>>)),
      \* an empty committee
      World(SystemStateError, CommitteeInfo("2", <<>>), SystemState("2", AllMeta)),
      \* failures
      World(SystemStateError, CommitteeInfoError, SystemState("2", AllMeta)),
      World(SystemStateError, CommitteeInfo("", <<PkA>>), SystemState("2", AllMeta)),
      World(SystemStateError,
            [err |-> FALSE, Epoch |-> "2", Validators |-> <<<<PkA, "100">>, <<>>>>],
            SystemState("2", AllMeta)),
      World(SystemStateError,
            [err |-> FALSE, Epoch |-> "2", Validators |-> <<<<"", "100">>>>],
            SystemState("2", AllMeta)),
      World(SystemStateError, CommitteeInfo("2", <<PkA, PkB>>), SystemStateError),
      World(SystemStateError, CommitteeInfo("2", <<PkA, PkB>>),
            SystemState("x", AllMeta)) }

NoWorld == World(SystemStateError, CommitteeInfoError, SystemStateError)

RECURSIVE SetToSeq(_)
SetToSeq(S) ==
    IF S = {} THEN <<>>
    ELSE LET m == CHOOSE x \in S : \A y \in S : x <= y
         IN  <<m>> \o SetToSeq(S \ {m})

\* The signer lists an event may carry: every set of indices in ascending order,
\* and one list out of order with a repeated index.
Bitmaps == { SetToSeq(S) : S \in SUBSET (0..MaxIndex) } \cup { <<1, 0, 1>> }

NoEvent == [hasSig |-> FALSE, epoch |-> 0, bitmap |-> <<>>, seq |-> 0]

\* The events the stream may deliver next: GetSignature() == nil, or a signature
\* with an epoch and a signer list.
CheckpointEvents ==
    { [hasSig |-> FALSE, epoch |-> 0, bitmap |-> <<>>, seq |-> nEvents + 1] }
    \cup { [hasSig |-> TRUE, epoch |-> e, bitmap |-> b, seq |-> nEvents + 1] :
              e \in 0..MaxEpoch, b \in Bitmaps }

(***************************************************************************)
(* Processor.Run.                                                          *)
(***************************************************************************)
NoSnapshot == [CheckpointSeq |-> 0]

\* an epoch comparison that reloads on every epoch other than the current one
EpochChangedOnDifference(checkpointEpochVal, epoch) == checkpointEpochVal # epoch

\* an epoch comparison that also reloads on an event of the current epoch
EpochChangedOrEqual(checkpointEpochVal, epoch) == checkpointEpochVal >= epoch

\* processor.go:77, the epoch change detection
EpochChanged(checkpointEpochVal, epoch) == checkpointEpochVal > epoch

\* processor.go:84-90, p.currentEpoch once the load has returned
EpochAfterLoad(checkpointEpochVal, loaded) ==
    IF loaded.err THEN checkpointEpochVal ELSE loaded.epoch

\* processor.go:89, p.committee once the load has returned
CommitteeAfterLoad(old, loaded) == IF loaded.err THEN old ELSE loaded.committee

\* a bounds check that lets the index equal to the committee size through
BitmapOutOfBoundsOffByOne(bitmap, committeeSize) ==
    \E i \in 1..Len(bitmap) : bitmap[i] > committeeSize

\* processor.go:107-118, the check that panics
BitmapOutOfBounds(bitmap, committeeSize) ==
    \E i \in 1..Len(bitmap) : bitmap[i] >= committeeSize

\* processor.go:120-128
RECURSIVE MatchCommittee(_, _, _)
MatchCommittee(sm, c, bitmap) ==
    IF c = <<>> THEN sm
    ELSE MatchCommittee(
             IF IsValidatorSigned(bitmap, IntValue(Head(c).BitmapIndex))
             THEN UpdateValidatorSigned(sm, Head(c).SuiAddress) ELSE sm,
             Tail(c), bitmap)

ReportEvery == 10

\* processor.go:169-177, the reports one processed event prints: none with the
\* UI, every tenth in dataset mode, one otherwise
ReportsPrinted(ui, dataset, count) ==
    IF ui THEN 0
    ELSE IF dataset THEN (IF count % ReportEvery = 0 THEN 1 ELSE 0)
    ELSE 1

\* an event without signature is processed like any other
SkipsNothing(ev) == FALSE

\* processor.go:64-67
SkipsEvent(ev) == ~ev.hasSig

\* the live map of the ledger put into the message
ShareStats(validatorStats) == [shared |-> TRUE, value |-> validatorStats]

\* processor.go:144-148, statsForUI: a new map filled with the values of the
\* ledger; shared tells whether the message holds the ledger's own map
CopyStats(validatorStats) == [shared |-> FALSE, value |-> validatorStats]

\* StatsManager.IsSigned, called at processor.go:155: the signedCurrent flag
\* of the ledger entry of an identity key
IsSigned(sm, suiAddress) ==
    /\ suiAddress \in DOMAIN sm.validatorStats
    /\ sm.validatorStats[suiAddress].SignedCurrent

\* processor.go:151-158, totalPower and signedPower
RECURSIVE TotalPower(_)
TotalPower(c) == IF c = <<>> THEN 0 ELSE Head(c).VotingPower + TotalPower(Tail(c))

RECURSIVE SignedPower(_, _)
SignedPower(sm, c) ==
    IF c = <<>> THEN 0
    ELSE (IF IsSigned(sm, Head(c).SuiAddress) THEN Head(c).VotingPower ELSE 0)
         + SignedPower(sm, Tail(c))

\* a message that carries the count of events where the sequence number goes
SnapshotMsgCountAsSeq(epoch, seq, sm, c) ==
    [Epoch |-> epoch, CheckpointSeq |-> sm.totalCheckpointsWithSig,
     TotalWithSig |-> sm.totalCheckpointsWithSig,
     SignedPower |-> SignedPower(sm, c), TotalPower |-> TotalPower(c),
     Committee |-> c, Stats |-> CopyStats(sm.validatorStats)]

\* processor.go:138-168, the message built for the UI
SnapshotMsg(epoch, seq, sm, c) ==
    [Epoch |-> epoch, CheckpointSeq |-> seq,
     TotalWithSig |-> sm.totalCheckpointsWithSig,
     SignedPower |-> SignedPower(sm, c), TotalPower |-> TotalPower(c),
     Committee |-> c, Stats |-> CopyStats(sm.validatorStats)]

Credited(k, c, bitmap) ==
    \E i \in 1..Len(c) :
        /\ c[i].SuiAddress = k
        /\ \E j \in 1..Len(bitmap) : bitmap[j] = c[i].BitmapIndex

\* processor.go:62-178, what Run does with a checkpoint it received
ProcessCheckpoint(ev, w) ==
    /\ procState = "running"
    /\ nEvents' = nEvents + 1
    /\ lastEvent' = ev
    /\ UNCHANGED <<datasetOn, uiOn, ctxDone, callVars>>
    /\ IF SkipsEvent(ev)
       THEN /\ lastReload' = "none"
            /\ lastLoaded' = LoadFailed
            /\ UNCHANGED <<currentEpoch, committee, statsManager, reportCount, printed, dmData,
                           files, uiChan, procState, pendingSnapshot, expected,
                           snapshotsSent, recorded>>
       ELSE LET sm1 == IncrementTotalCheckpointsWithSig(statsManager)
                reload == EpochChanged(ev.epoch, currentEpoch)
                loaded == LoadEpochValidatorData(ev.epoch, w)
                epoch1 == IF reload THEN EpochAfterLoad(ev.epoch, loaded)
                          ELSE currentEpoch
                committee1 == IF reload THEN CommitteeAfterLoad(committee, loaded)
                              ELSE committee
                sm2 == IF reload /\ ~loaded.err
                       THEN InitializeCommitteeStats(sm1, loaded.committee) ELSE sm1
                sm3 == ResetSignedCurrent(sm2, committee1)
                sm4 == MatchCommittee(sm3, committee1, ev.bitmap)
                dm == RecordCheckpoint([data |-> dmData, files |-> files], epoch1,
                                       ev.seq, ev.bitmap, committee1)
                msg == SnapshotMsg(epoch1, ev.seq, sm4, committee1)
            IN  /\ currentEpoch' = epoch1
                /\ committee' = committee1
                /\ lastReload' = IF ~reload THEN "none"
                                 ELSE IF loaded.err THEN "failed" ELSE "ok"
                /\ lastLoaded' = IF reload THEN loaded ELSE LoadFailed
                /\ IF BitmapOutOfBounds(ev.bitmap, Len(committee1))
                   THEN /\ statsManager' = sm3
                        /\ procState' = "panicked"
                        /\ UNCHANGED <<reportCount, printed, dmData, files, uiChan,
                                       pendingSnapshot, expected, snapshotsSent,
                                       recorded>>
                   ELSE /\ statsManager' = sm4
                        /\ expected' =
                               [k \in DOMAIN sm4.validatorStats |->
                                   (IF k \in DOMAIN expected THEN expected[k] ELSE 0)
                                   + (IF Credited(k, committee1, ev.bitmap)
                                      THEN 1 ELSE 0)]
                        /\ IF datasetOn
                           THEN /\ dmData' = dm.data
                                /\ files' = dm.files
                                /\ reportCount' = reportCount + 1
                                /\ recorded' = Append(recorded,
                                                     [epoch |-> epoch1, seq |-> ev.seq])
                           ELSE UNCHANGED <<dmData, files, reportCount, recorded>>
                        /\ printed' = printed + ReportsPrinted(uiOn, datasetOn,
                                          IF datasetOn THEN reportCount + 1
                                          ELSE reportCount)
                        /\ IF ~uiOn
                           THEN UNCHANGED <<uiChan, procState, pendingSnapshot,
                                            snapshotsSent>>
                           ELSE IF Len(uiChan) < UIChanCap
                           THEN /\ uiChan' = Append(uiChan, msg)
                                /\ snapshotsSent' = snapshotsSent + 1
                                /\ UNCHANGED <<procState, pendingSnapshot>>
                           ELSE /\ procState' = "sending"
                                /\ pendingSnapshot' = msg
                                /\ UNCHANGED <<uiChan, snapshotsSent>>

\* processor.go:54-178, Run takes a checkpoint the stream delivers
HandleCheckpoint(ev, w) ==
    /\ nEvents < MaxEvents
    /\ ProcessCheckpoint(ev, w)
    /\ UNCHANGED subVars

\* processor.go:160, a send that found uiChan full goes through once there is room
SendSnapshot ==
    /\ procState = "sending"
    /\ Len(uiChan) < UIChanCap
    /\ uiChan' = Append(uiChan, pendingSnapshot)
    /\ snapshotsSent' = snapshotsSent + 1
    /\ procState' = "running"
    /\ pendingSnapshot' = NoSnapshot
    /\ UNCHANGED <<currentEpoch, committee, statsManager, reportCount, printed, dmData, files,
                   datasetOn, uiOn, ctxDone, nEvents, lastEvent, lastReload,
                   lastLoaded, expected, recorded, subVars, callVars>>

StopRun ==
    /\ procState' = "stopped"
    /\ IF datasetOn
       THEN LET dm == Close([data |-> dmData, files |-> files])
            IN  dmData' = dm.data /\ files' = dm.files
       ELSE UNCHANGED <<dmData, files>>
    /\ UNCHANGED <<currentEpoch, committee, statsManager, reportCount, printed, uiChan,
                   pendingSnapshot, datasetOn, uiOn, nEvents, lastEvent, lastReload,
                   lastLoaded, expected, snapshotsSent, recorded, subVars, callVars>>

\* processor.go:54-61, the stream was closed by the subscriber
ChannelClosed == procState = "running" /\ StopRun /\ UNCHANGED ctxDone

\* processor.go:180-185, the shutdown signal fires and the select of Run takes it
ContextDone == procState = "running" /\ ctxDone' = TRUE /\ StopRun

\* the goroutine of main that drains the snapshot channel into the UI
RelaySnapshot ==
    /\ uiOn /\ uiChan # <<>>
    /\ uiChan' = Tail(uiChan)
    /\ UNCHANGED <<currentEpoch, committee, statsManager, reportCount, printed, dmData, files,
                   procState, pendingSnapshot, datasetOn, uiOn, ctxDone, nEvents,
                   lastEvent, lastReload, lastLoaded, expected, snapshotsSent, recorded,
                   subVars, callVars>>

(***************************************************************************)
(* The Stream Resilience Loop: SubscribeToCheckpoints (subscriber.go).     *)
(***************************************************************************)
NoResp == 0

\* subscriber.go:31, 1 * time.Second
DefaultRetryDelay == 1

\* values of cfg.RetryDelay: negative, zero, two seconds
RetryDelays == {-1, 0, 2}

\* what Recv and SubscribeCheckpoints can fail with: io.EOF, the gRPC status
\* codes the loop names, another gRPC status, an error that is no gRPC status
RecvErrors == {"EOF", "Canceled", "Internal", "Unavailable", "OtherGRPC", "NonGRPC"}

\* status.FromError: ok only for an error that carries a gRPC status
IsGRPCStatus(err) == err \in {"Canceled", "Internal", "Unavailable", "OtherGRPC"}

RecvErrorExitsOnUnavailable(err, cancelled) ==
    \/ cancelled
    \/ err # "EOF" /\ IsGRPCStatus(err) /\ err \in {"Canceled", "Unavailable"}

\* subscriber.go:75-101: TRUE when the loop returns on this Recv error, FALSE
\* when it breaks out of recvLoop to resubscribe
RecvErrorExits(err, cancelled) ==
    IF cancelled THEN TRUE                              \* 76-79
    ELSE IF err = "EOF" THEN FALSE                      \* 81-84
    ELSE IF IsGRPCStatus(err)
         THEN IF err = "Canceled" THEN TRUE             \* 88-91
              ELSE FALSE                                \* 92-97
         ELSE FALSE                                     \* 98-100

HandoffDropping(ch, cp) ==
    [ready |-> TRUE, ch |-> IF Len(ch) < ChanCap THEN Append(ch, cp) ELSE ch]

\* subscriber.go:107, "checkpointChan <- resp.GetCheckpoint()": ready only
\* while the buffer has room
Handoff(ch, cp) == [ready |-> Len(ch) < ChanCap, ch |-> Append(ch, cp)]

\* a delay taken from the configuration as it is
RetryDelayAsConfigured(configured) == configured

\* subscriber.go:29-32, the delay between attempts
RetryDelayOf(configured) ==
    IF configured <= 0 THEN DefaultRetryDelay ELSE configured

\* a return that leaves the channel open
ExitWithoutClose ==
    /\ pc' = "Terminated"
    /\ pendingResp' = NoResp
    /\ UNCHANGED <<checkpointChan, chanClosed>>

\* subscriber.go:27, the deferred close runs on every return
Exit ==
    /\ pc' = "Terminated"
    /\ chanClosed' = TRUE
    /\ pendingResp' = NoResp
    /\ UNCHANGED checkpointChan

LoopTopSkipsCheck(cancelled) == "Subscribing"

\* subscriber.go:35-41, the non-blocking select at the top of the outer loop
LoopTop(cancelled) == IF cancelled THEN "Terminated" ELSE "Subscribing"

\* subscriber.go:34-43
BeginIteration ==
    /\ pc = "Idle"
    /\ IF LoopTop(ctxDone) = "Terminated"
       THEN Exit /\ UNCHANGED attempts
       ELSE /\ attempts < MaxSubscribes
            /\ attempts' = attempts + 1
            /\ pc' = LoopTop(ctxDone)
            /\ UNCHANGED <<checkpointChan, chanClosed, pendingResp>>
    /\ UNCHANGED <<lastErr, received, consumed, subscriptions, nRecv, timerVars, receivedFrom,
                   procVars, ctxDone, callVars>>

\* subscriber.go:44-51 and 70, SubscribeCheckpoints returns a stream; the call
\* was in flight, and the shutdown signal may have fired meanwhile
SubscribeOK ==
    /\ pc = "Subscribing"
    /\ pc' = "Streaming"
    /\ subscriptions' = subscriptions + 1
    /\ UNCHANGED <<checkpointChan, chanClosed, pendingResp, lastErr, received, consumed,
                   attempts, nRecv, timerVars, receivedFrom, procVars, ctxDone, callVars>>

\* subscriber.go:53-59, SubscribeCheckpoints returns an error
SubscribeFails ==
    /\ pc = "Subscribing"
    /\ lastErr' = "SubscribeFailed"
    /\ IF ctxDone
       THEN Exit /\ UNCHANGED waited
       ELSE /\ pc' = "SubscribeBackoff"
            /\ waited' = 0
            /\ UNCHANGED <<checkpointChan, chanClosed, pendingResp>>
    /\ UNCHANGED <<received, consumed, attempts, subscriptions, nRecv, retryDelay, receivedFrom,
                   procVars, ctxDone, callVars>>

\* subscriber.go:60-63 and 117-119, time.After(retryDelay) fires
RetryTimer ==
    /\ pc \in {"SubscribeBackoff", "Backoff"}
    /\ waited >= RetryDelayOf(retryDelay)
    /\ pc' = "Idle"
    /\ UNCHANGED <<checkpointChan, chanClosed, pendingResp, lastErr, received,
                   consumed, attempts, subscriptions, nRecv, timerVars, receivedFrom,
                   procVars, ctxDone, callVars>>

\* a second of the wait at subscriber.go:61 or 118 passes
Tick ==
    /\ pc \in {"SubscribeBackoff", "Backoff"}
    /\ waited < RetryDelayOf(retryDelay)
    /\ waited' = waited + 1
    /\ UNCHANGED <<pc, checkpointChan, chanClosed, pendingResp, lastErr, received,
                   consumed, attempts, subscriptions, nRecv, retryDelay, receivedFrom,
                   procVars, ctxDone, callVars>>

\* subscriber.go:64-66 and 120-122, ctx.Done() wins the select of the wait
RetryCancelled ==
    /\ pc \in {"SubscribeBackoff", "Backoff"}
    /\ ctxDone
    /\ Exit
    /\ UNCHANGED <<lastErr, received, consumed, attempts, subscriptions, nRecv,
                   timerVars, receivedFrom, procVars, ctxDone, callVars>>

\* a Recv on the stream opened first, whatever was opened since
StreamReadFirst(opened) == 1

\* subscriber.go:74, stream.Recv(): stream is the one opened last, streams
\* being numbered as SubscribeCheckpoints returns them
StreamRead(opened) == opened

\* subscriber.go:74 and 105-113, Recv returns a response; one that carries a
\* checkpoint goes to the select that sends it
RecvResponse(hasCheckpoint) ==
    /\ pc = "Streaming"
    /\ nRecv < MaxRecv
    /\ nRecv' = nRecv + 1
    /\ receivedFrom' = Append(receivedFrom, StreamRead(subscriptions))
    /\ IF hasCheckpoint
       THEN /\ received' = Append(received, nRecv + 1)
            /\ pendingResp' = nRecv + 1
            /\ pc' = "Sending"
       ELSE UNCHANGED <<received, pendingResp, pc>>
    /\ UNCHANGED <<checkpointChan, chanClosed, lastErr, consumed, attempts,
                   subscriptions, timerVars, procVars, ctxDone, callVars>>

\* subscriber.go:74-102, Recv returns an error
RecvError(err) ==
    /\ pc = "Streaming"
    /\ lastErr' = err
    /\ IF RecvErrorExits(err, ctxDone)
       THEN Exit /\ UNCHANGED waited
       ELSE /\ pc' = "Backoff"
            /\ waited' = 0
            /\ UNCHANGED <<checkpointChan, chanClosed, pendingResp>>
    /\ UNCHANGED <<received, consumed, attempts, subscriptions, nRecv, retryDelay, receivedFrom,
                   procVars, ctxDone, callVars>>

\* subscriber.go:106-108, the send case of the select is taken
SendCheckpoint ==
    /\ pc = "Sending"
    /\ LET h == Handoff(checkpointChan, pendingResp)
       IN  /\ h.ready
           /\ checkpointChan' = h.ch
    /\ pendingResp' = NoResp
    /\ pc' = "Streaming"
    /\ UNCHANGED <<chanClosed, lastErr, received, consumed, attempts, subscriptions,
                   nRecv, timerVars, receivedFrom, procVars, ctxDone, callVars>>

\* subscriber.go:109-111, ctx.Done() wins the select of the send
SendCancelled ==
    /\ pc = "Sending"
    /\ ctxDone
    /\ Exit
    /\ UNCHANGED <<lastErr, received, consumed, attempts, subscriptions, nRecv,
                   timerVars, receivedFrom, procVars, ctxDone, callVars>>

\* processor.go:54, the consumer takes the next checkpoint from the channel
ConsumeCheckpoint ==
    /\ checkpointChan # <<>>
    /\ consumed' = Append(consumed, Head(checkpointChan))
    /\ checkpointChan' = Tail(checkpointChan)
    /\ UNCHANGED <<pc, chanClosed, pendingResp, lastErr, received, attempts,
                   subscriptions, nRecv, timerVars, receivedFrom, procVars, ctxDone, callVars>>

\* main: the signal handler calls cancel()
Cancel ==
    /\ ~ctxDone
    /\ ctxDone' = TRUE
    /\ UNCHANGED <<procVars, subVars, callVars>>

\* main: the channel is made, the goroutine is started
SubscriberInit ==
    /\ pc = "Idle"
    /\ checkpointChan = <<>>
    /\ chanClosed = FALSE
    /\ pendingResp = NoResp
    /\ lastErr = "none"
    /\ received = <<>>
    /\ receivedFrom = <<>>
    /\ consumed = <<>>
    /\ attempts = 0
    /\ subscriptions = 0
    /\ nRecv = 0
    /\ retryDelay \in RetryDelays
    /\ waited = 0

\* the goroutine is not followed: it stays where main started it, with no
\* delay configured
SubscriberIdle == SubscriberInit /\ retryDelay = 0

SubscriberStep ==
    \/ BeginIteration
    \/ SubscribeOK
    \/ SubscribeFails
    \/ RetryTimer
    \/ Tick
    \/ RetryCancelled
    \/ \E hasCheckpoint \in BOOLEAN : RecvResponse(hasCheckpoint)
    \/ \E err \in RecvErrors : RecvError(err)
    \/ SendCheckpoint
    \/ SendCancelled

\* main: the initial load, the ledger initialised for it, Run entered; the
\* process runs in plain mode, with the UI, or in dataset mode
ProcessorInit ==
    \E w \in InitialWorlds :
        LET loaded == LoadEpochValidatorData(0, w)
        IN  /\ ~loaded.err
            /\ currentEpoch = loaded.epoch
            /\ committee = loaded.committee
            /\ statsManager = InitializeCommitteeStats(NewStatsManager, loaded.committee)
            /\ expected = [k \in { loaded.committee[i].SuiAddress :
                                      i \in 1..Len(loaded.committee) } |-> 0]
            /\ reportCount = 0
            /\ printed = 0
            /\ dmData = NoData
            /\ files = <<>>
            /\ uiChan = <<>>
            /\ procState = "running"
            /\ pendingSnapshot = NoSnapshot
            /\ datasetOn \in BOOLEAN
            /\ uiOn \in BOOLEAN
            /\ ~(datasetOn /\ uiOn)
            /\ ctxDone = FALSE
            /\ nEvents = 0
            /\ lastEvent = NoEvent
            /\ lastReload = "none"
            /\ lastLoaded = LoadFailed
            /\ snapshotsSent = 0
            /\ recorded = <<>>

NoLoad ==
    [targetEpoch |-> 0, world |-> NoWorld, done |-> FALSE, queried |-> "",
     result |-> LoadFailed]

\* NewDatasetManager: no data, no file written
NewDatasetManager == [data |-> NoData, files |-> <<>>]

NoDataset ==
    [dm |-> NewDatasetManager, committee |-> <<>>, epoch |-> 0, seq |-> 0,
     history |-> <<>>, closed |-> FALSE]

\* no call of SpecLoad is under way, no dataset of SpecDataset is fed, the
\* relay goroutine runs
NoLedgerCall ==
    [op |-> "none", key |-> "", committee |-> <<>>, before |-> NewStatsManager]

NoMatch ==
    [bitmap |-> <<>>, validatorIndex |-> IntValue(0), done |-> FALSE, result |-> FALSE]

\* tui.New (model.go:116-148): the Model before the first snapshot
New(epochID, validators) ==
    [epoch |-> epochID, checkpointSeq |-> 0, totalWithSig |-> 0,
     signedPower |-> 0, totalPower |-> 0,
     committee |-> validators, stats |-> EmptyMap,
     totalValidators |-> Len(validators), signedValidators |-> 0,
     signedVotingPower |-> 0, totalVotingPower |-> 0]

NoDashboard == New(0, <<>>)

NoCall ==
    /\ load = NoLoad /\ ds = NoDataset /\ relayDone = FALSE
    /\ view = <<>> /\ ledgerCall = NoLedgerCall /\ match = NoMatch
    /\ dashboard = NoDashboard

Init == ProcessorInit /\ SubscriberIdle /\ NoCall

Next ==
    \/ \E ev \in CheckpointEvents :
          \E w \in (IF ev.hasSig /\ EpochChanged(ev.epoch, currentEpoch)
                    THEN ReloadWorlds ELSE {NoWorld}) :
              HandleCheckpoint(ev, w)
    \/ SendSnapshot
    \/ ChannelClosed
    \/ ContextDone
    \/ RelaySnapshot

Spec == Init /\ [][Next]_vars

\* the subscriber goroutine with its channel; the processor is in plain mode
\* and stands for the consumer only
InitSub == ProcessorInit /\ ~datasetOn /\ ~uiOn /\ SubscriberInit /\ NoCall

NextSub ==
    \/ SubscriberStep
    \/ ConsumeCheckpoint
    \/ Cancel

SpecSub == InitSub /\ [][NextSub]_vars

\* the goroutine is scheduled, and SubscribeCheckpoints, Recv and time.After
\* return
SpecSubFair == SpecSub /\ WF_vars(SubscriberStep)

(***************************************************************************)
(* SpecShutdown: Run with the snapshot channel and the relay goroutine of  *)
(* main, the shutdown signal firing at any moment.                         *)
(***************************************************************************)
InitShutdown == ProcessorInit /\ uiOn /\ SubscriberIdle /\ NoCall

\* processor.go:180-185, the select of Run takes ctx.Done()
ObserveDone == procState = "running" /\ ctxDone /\ StopRun /\ UNCHANGED ctxDone

\* main: the relay goroutine takes a snapshot from the channel
RelayWhileOpen == ~relayDone /\ RelaySnapshot

\* main: the relay goroutine takes ctx.Done() and returns
RelayExit ==
    /\ ctxDone /\ ~relayDone
    /\ relayDone' = TRUE
    /\ UNCHANGED <<procVars, ctxDone, subVars, load, ds, view, ledgerCall, match, dashboard>>

\* the steps of Run
RunStep ==
    \/ \E ev \in CheckpointEvents :
          \E w \in (IF ev.hasSig /\ EpochChanged(ev.epoch, currentEpoch)
                    THEN ReloadWorlds ELSE {NoWorld}) :
              HandleCheckpoint(ev, w)
    \/ SendSnapshot
    \/ ChannelClosed
    \/ ObserveDone

\* the steps of the relay goroutine
RelayStep == RelayWhileOpen \/ RelayExit

NextShutdown == RunStep \/ RelayStep \/ Cancel

\* both goroutines are scheduled
SpecShutdown ==
    InitShutdown /\ [][NextShutdown]_vars /\ WF_vars(RunStep) /\ WF_vars(RelayStep)

(***************************************************************************)
(* SpecPipeline: the subscriber goroutine and Run, joined by the channel   *)
(* main makes for them; the processor is in plain mode.                    *)
(***************************************************************************)
\* a receive that reports the close as soon as the channel is closed
ChannelReceiveCloseFirst(ch, closed) ==
    IF closed THEN [ready |-> TRUE, ok |-> FALSE]
    ELSE [ready |-> ch # <<>>, ok |-> TRUE]

\* processor.go:54, "receivedCheckpoint, ok := <-checkpointStream": a value
\* while the buffer holds one, ok = false once the channel is closed and
\* empty, not ready otherwise
ChannelReceive(ch, closed) ==
    IF ch # <<>> THEN [ready |-> TRUE, ok |-> TRUE]
    ELSE [ready |-> closed, ok |-> FALSE]

\* what the checkpoint numbered seq may carry: no signature, the signature
\* of the first member of the committee, a signer index beyond the committee
PipelineEvents(seq) ==
    { [hasSig |-> FALSE, epoch |-> 0, bitmap |-> <<>>, seq |-> seq],
      [hasSig |-> TRUE, epoch |-> currentEpoch, bitmap |-> <<0>>, seq |-> seq],
      [hasSig |-> TRUE, epoch |-> currentEpoch, bitmap |-> <<Len(committee)>>,
       seq |-> seq] }

InitPipeline == ProcessorInit /\ ~datasetOn /\ ~uiOn /\ SubscriberIdle /\ NoCall

\* processor.go:54-178, Run receives the checkpoint at the head of the
\* channel and processes it
TakeCheckpoint ==
    LET rcv == ChannelReceive(checkpointChan, chanClosed)
    IN  /\ rcv.ready /\ rcv.ok
        /\ checkpointChan # <<>>
        /\ \E ev \in PipelineEvents(Head(checkpointChan)) : ProcessCheckpoint(ev, NoWorld)
        /\ consumed' = Append(consumed, Head(checkpointChan))
        /\ checkpointChan' = Tail(checkpointChan)
        /\ UNCHANGED <<pc, chanClosed, pendingResp, lastErr, received, attempts,
                       subscriptions, nRecv, timerVars, receivedFrom>>

\* processor.go:54-61, the receive reports the channel closed
SeeChannelClosed ==
    LET rcv == ChannelReceive(checkpointChan, chanClosed)
    IN  /\ rcv.ready /\ ~rcv.ok
        /\ ChannelClosed

NextPipeline ==
    \/ SubscriberStep
    \/ TakeCheckpoint
    \/ SeeChannelClosed
    \/ ObserveDone
    \/ Cancel

SpecPipeline == InitPipeline /\ [][NextPipeline]_vars

(***************************************************************************)
(* SpecLoad: LoadEpochValidatorData called once on answers of the node.    *)
(***************************************************************************)
SeqsUpTo(S, n) == UNION { [1..k -> S] : k \in 0..n }

\* committee orderings: known keys, keys missing from the metadata, an empty key
CommitteeKeyLists == SeqsUpTo({PkA, PkB, PkX, PkY, ""}, MaxCommittee)

\* answers to suix_getCommitteeInfo
CommitteeInfoAnswers ==
    { CommitteeInfo(e, keys) : e \in {"2", "", "x"}, keys \in CommitteeKeyLists }
    \cup { CommitteeInfoError,
           \* an entry without any field, an entry with the key only
           [err |-> FALSE, Epoch |-> "2", Validators |-> <<<<PkA, "100">>, <<>>>>],
           [err |-> FALSE, Epoch |-> "2", Validators |-> <<<<PkB>>, <<PkA>>>>] }

\* activeValidators lists: none, all, one, one without a key, two with the same
\* key, one for a key of 12 bytes
MetadataLists ==
    { <<>>, AllMeta, <<MetaA>>, <<MetaNoKey>>,
      <<MetaB, [SuiAddress |-> "0xf", Name |-> "frank", ProtocolPubkeyBytes |-> PkB]>>,
      <<[SuiAddress |-> "0xx", Name |-> "xavier", ProtocolPubkeyBytes |-> PkX]>> }

\* answers to the suix_getLatestSuiSystemState that fetches the metadata
MetadataAnswers ==
    { SystemState("2", m) : m \in MetadataLists }
    \cup { SystemState("x", AllMeta), SystemState("", AllMeta), SystemStateError }

\* answers to the suix_getLatestSuiSystemState that resolves the latest epoch
PreFetchAnswers ==
    { SystemState("1", <<>>), SystemState("x", <<>>), SystemState("", <<>>),
      SystemStateError }

\* the calls: targetEpoch 0 asks for the latest epoch and uses the pre-fetch
LoaderCalls ==
    { [targetEpoch |-> e, world |-> World(pre, info, meta), done |-> FALSE,
       queried |-> "", result |-> LoadFailed] :
          e \in 0..MaxEpoch,
          pre \in PreFetchAnswers, info \in CommitteeInfoAnswers,
          meta \in MetadataAnswers }

InitLoad ==
    /\ ProcessorInit /\ ~datasetOn /\ ~uiOn
    /\ SubscriberIdle
    /\ load \in { c \in LoaderCalls :
                    c.targetEpoch # 0 => c.world.sysPre = SystemStateError }
    /\ ds = NoDataset
    /\ relayDone = FALSE
    /\ view = <<>>
    /\ ledgerCall = NoLedgerCall
    /\ match = NoMatch
    /\ dashboard = NoDashboard

RunLoad ==
    /\ ~load.done
    /\ load' = [load EXCEPT !.done = TRUE,
                            !.queried = EpochToQuery(load.targetEpoch, load.world),
                            !.result = LoadEpochValidatorData(load.targetEpoch,
                                                              load.world)]
    /\ UNCHANGED <<procVars, ctxDone, subVars, ds, relayDone, view, ledgerCall, match, dashboard>>

NextLoad == RunLoad

SpecLoad == InitLoad /\ [][NextLoad]_vars

(***************************************************************************)
(* SpecDataset: a DatasetManager recording the checkpoints of one epoch,   *)
(* as Run feeds it (processor.go:130-133) and main closes it.              *)
(***************************************************************************)
MaxRecords == 9

\* the epoch whose checkpoints are recorded
DatasetEpoch == 2

\* signer lists of the recorded checkpoints, all within a committee of two
DatasetBitmaps == { <<>>, <<0>>, <<0, 1>> }

\* the committees of two members a reload for the epoch can return
DatasetCommittees ==
    { c \in { LoadEpochValidatorData(DatasetEpoch, w).committee : w \in ReloadWorlds } :
        Len(c) = 2 }

\* the manager is new, or holds one checkpoint of the epoch before
DatasetStarts(c) ==
    { [dm |-> NewDatasetManager, seq |-> 0],
      [dm |-> RecordCheckpoint(NewDatasetManager, DatasetEpoch - 1, 1, <<0>>, c),
       seq |-> 1] }

InitDataset ==
    /\ ProcessorInit /\ datasetOn
    /\ SubscriberIdle
    /\ load = NoLoad
    /\ relayDone = FALSE
    /\ view = <<>>
    /\ ledgerCall = NoLedgerCall
    /\ match = NoMatch
    /\ dashboard = NoDashboard
    /\ \E c \in DatasetCommittees : \E s \in DatasetStarts(c) :
          ds = [dm |-> s.dm, committee |-> c, epoch |-> DatasetEpoch, seq |-> s.seq,
                history |-> <<>>, closed |-> FALSE]

\* p.dataset.RecordCheckpoint(p.currentEpoch, seq, bitmap, p.committee)
RecordNext(bitmap) ==
    /\ ~ds.closed
    /\ Len(ds.history) < MaxRecords
    /\ ds' = [ds EXCEPT !.dm = RecordCheckpoint(ds.dm, ds.epoch, ds.seq + 1, bitmap,
                                                ds.committee),
                        !.seq = @ + 1,
                        !.history = Append(@, bitmap)]
    /\ UNCHANGED <<procVars, ctxDone, subVars, load, relayDone, view, ledgerCall, match, dashboard>>

\* p.dataset.Close() when Run returns
CloseDataset ==
    /\ ~ds.closed
    /\ ds' = [ds EXCEPT !.dm = Close(ds.dm), !.closed = TRUE]
    /\ UNCHANGED <<procVars, ctxDone, subVars, load, relayDone, view, ledgerCall, match, dashboard>>

NextDataset ==
    \/ \E bitmap \in DatasetBitmaps : RecordNext(bitmap)
    \/ CloseDataset

SpecDataset == InitDataset /\ [][NextDataset]_vars

(***************************************************************************)
(* One StatsManager and a caller that keeps the map GetAllStats returned   *)
(* while the operations of the ledger go on.                               *)
(***************************************************************************)
\* stats.go:86-89: the map of the ledger itself is returned; shared tells
\* that the caller holds the ledger's own map
GetAllStats(sm) == [shared |-> TRUE, value |-> sm.validatorStats]

\* what the holder of a map finds in it: a Go map is a reference, the
\* ledger's own map shows the ledger as it is now
ReadView(v, sm) == IF v.shared THEN sm.validatorStats ELSE v.value

\* the committees the ledger is initialised and reset with
LedgerCommittees ==
    { l.committee : l \in { x \in { LoadEpochValidatorData(DatasetEpoch, w) :
                                        w \in ReloadWorlds } : ~x.err } }

LedgerAddresses ==
    UNION { { c[i].SuiAddress : i \in 1..Len(c) } : c \in LedgerCommittees }

InitLedger ==
    /\ ProcessorInit /\ ~datasetOn /\ ~uiOn
    /\ SubscriberIdle
    /\ NoCall

LedgerUnchanged ==
    UNCHANGED <<currentEpoch, committee, reportCount, printed, dmData, files,
                uiChan, procState, pendingSnapshot, datasetOn, uiOn,
                nEvents, lastEvent, lastReload, lastLoaded, expected,
                snapshotsSent, recorded, ctxDone, subVars, load, ds, relayDone, match,
                dashboard>>

\* the caller asks for the map and keeps it
TakeView ==
    /\ view' = <<GetAllStats(statsManager)>>
    /\ UNCHANGED <<statsManager, ledgerCall>>
    /\ LedgerUnchanged

LedgerCalled(op, key, c) ==
    ledgerCall' = [op |-> op, key |-> key, committee |-> c, before |-> statsManager]

LedgerInitialize(c) ==
    /\ statsManager' = InitializeCommitteeStats(statsManager, c)
    /\ LedgerCalled("InitializeCommitteeStats", "", c)
    /\ UNCHANGED view
    /\ LedgerUnchanged

LedgerResetCurrent(c) ==
    /\ statsManager' = ResetSignedCurrent(statsManager, c)
    /\ LedgerCalled("ResetSignedCurrent", "", c)
    /\ UNCHANGED view
    /\ LedgerUnchanged

\* the key is any key, in the ledger or not
LedgerRecordSigned(a) ==
    /\ a \in DOMAIN statsManager.validatorStats
         => statsManager.validatorStats[a].AttestedCount < MaxEvents
    /\ statsManager' = UpdateValidatorSigned(statsManager, a)
    /\ LedgerCalled("UpdateValidatorSigned", a, <<>>)
    /\ UNCHANGED view
    /\ LedgerUnchanged

LedgerIncrementTotal ==
    /\ statsManager.totalCheckpointsWithSig < MaxEvents
    /\ statsManager' = IncrementTotalCheckpointsWithSig(statsManager)
    /\ LedgerCalled("IncrementTotalCheckpointsWithSig", "", <<>>)
    /\ UNCHANGED view
    /\ LedgerUnchanged

NextLedger ==
    \/ TakeView
    \/ \E c \in LedgerCommittees : LedgerInitialize(c)
    \/ \E c \in LedgerCommittees : LedgerResetCurrent(c)
    \/ \E a \in LedgerAddresses : LedgerRecordSigned(a)
    \/ LedgerIncrementTotal

SpecLedger == InitLedger /\ [][NextLedger]_vars

(***************************************************************************)
(* SpecMatcher: IsValidatorSigned called once on a signer list and an      *)
(* index drawn in Init.                                                    *)
(***************************************************************************)
\* the signer lists: every list of up to three indices, in any order and
\* with repetitions
MatcherBitmaps ==
    UNION { [1..n -> 0..MaxIndex] : n \in 0..3 }

\* the indices: negative ones, the ones a list can hold and one more, and
\* the same 2^32 higher
MatcherIndices ==
    { IntValue(n) : n \in -2..(MaxIndex + 1) }
    \cup { [neg |-> FALSE, hi |-> 1, lo |-> l] : l \in 0..(MaxIndex + 1) }

InitMatcher ==
    /\ ProcessorInit /\ ~datasetOn /\ ~uiOn
    /\ SubscriberIdle
    /\ load = NoLoad /\ ds = NoDataset /\ relayDone = FALSE
    /\ view = <<>> /\ ledgerCall = NoLedgerCall /\ dashboard = NoDashboard
    /\ \E b \in MatcherBitmaps : \E i \in MatcherIndices :
          match = [bitmap |-> b, validatorIndex |-> i, done |-> FALSE,
                   result |-> FALSE]

RunMatch ==
    /\ ~match.done
    /\ match' = [match EXCEPT
                    !.done = TRUE,
                    !.result = IsValidatorSigned(match.bitmap, match.validatorIndex)]
    /\ UNCHANGED <<procVars, ctxDone, subVars, load, ds, relayDone, view, ledgerCall,
                   dashboard>>

SpecMatcher == InitMatcher /\ [][RunMatch]_vars

(***************************************************************************)
(* SpecDashboard: Run with the snapshot channel, and the dashboard that    *)
(* applies the snapshots relayed to it.                                    *)
(***************************************************************************)
\* view.go:283-291: the entries of m.stats with SignedCurrent set
countSignaturesForCheckpoint(m) ==
    Cardinality({ k \in DOMAIN m.stats : m.stats[k].SignedCurrent })

\* model.go:156-170
applySnapshot(m, msg) ==
    LET m1 == [m EXCEPT !.epoch = msg.Epoch,
                        !.checkpointSeq = msg.CheckpointSeq,
                        !.totalWithSig = msg.TotalWithSig,
                        !.signedPower = msg.SignedPower,
                        !.totalPower = msg.TotalPower,
                        !.committee = msg.Committee,
                        !.stats = msg.Stats.value]
    IN  [m1 EXCEPT !.totalValidators = Len(m1.committee),
                   !.signedValidators = countSignaturesForCheckpoint(m1),
                   !.signedVotingPower = m1.signedPower,
                   !.totalVotingPower = m1.totalPower]

\* part_007:228, the Model is made for the initial epoch and committee
InitDashboard ==
    /\ ProcessorInit /\ uiOn
    /\ SubscriberIdle
    /\ load = NoLoad /\ ds = NoDataset /\ relayDone = FALSE
    /\ view = <<>> /\ ledgerCall = NoLedgerCall /\ match = NoMatch
    /\ dashboard = New(currentEpoch, committee)

\* part_007:247-251 and update.go:49-51: the relay goroutine takes a snapshot
\* from the channel and sends it to the program, which applies it
ApplyNextSnapshot ==
    /\ uiOn /\ uiChan # <<>>
    /\ uiChan' = Tail(uiChan)
    /\ dashboard' = applySnapshot(dashboard, Head(uiChan))
    /\ UNCHANGED <<currentEpoch, committee, statsManager, reportCount, printed, dmData,
                   files, procState, pendingSnapshot, datasetOn, uiOn, ctxDone, nEvents,
                   lastEvent, lastReload, lastLoaded, expected, snapshotsSent, recorded,
                   subVars, load, ds, relayDone, view, ledgerCall, match>>

NextDashboard ==
    \/ \E ev \in CheckpointEvents :
          \E w \in (IF ev.hasSig /\ EpochChanged(ev.epoch, currentEpoch)
                    THEN ReloadWorlds ELSE {NoWorld}) :
              HandleCheckpoint(ev, w)
    \/ SendSnapshot
    \/ ApplyNextSnapshot

SpecDashboard == InitDashboard /\ [][NextDashboard]_vars

(***************************************************************************)
(* Properties of the Checkpoint Processor and the Uptime Ledger.           *)
(***************************************************************************)
Stats == statsManager.validatorStats

\* the step of Run that took an event from the stream
EventStep == nEvents' = nEvents + 1

InSignerSet(bitmap, index) == \E j \in 1..Len(bitmap) : bitmap[j] = index

SignerSetInRange(bitmap, c) == \A j \in 1..Len(bitmap) : bitmap[j] < Len(c)

\* the signedCurrent flag the ledger holds for identity key k
SignedCurrentOf(k) == k \in DOMAIN Stats /\ Stats[k].SignedCurrent

CountOf(sm, k) ==
    IF k \in DOMAIN sm.validatorStats THEN sm.validatorStats[k].AttestedCount ELSE 0

\* the members of committee c with identity key k whose index is in the signer list
SigningMembers(c, k, bitmap) ==
    { i \in 1..Len(c) : c[i].SuiAddress = k /\ InSignerSet(bitmap, c[i].BitmapIndex) }

\* C1: after a signature-carrying event whose signer indices are all below the
\* committee size, a member of the committee is marked signedCurrent exactly
\* when its bitmapIndex is in the signer set.
C1_SignedExactlySigners ==
    (lastEvent.hasSig /\ procState # "panicked"
        /\ SignerSetInRange(lastEvent.bitmap, committee))
    => \A i \in 1..Len(committee) :
           SignedCurrentOf(committee[i].SuiAddress)
           <=> InSignerSet(lastEvent.bitmap, committee[i].BitmapIndex)

\* C2: no step removes an identity key from the ledger or lowers its
\* attestedCount, a committee reload included.
C2_AttestedCountMonotonic ==
    [][\A k \in DOMAIN Stats :
           /\ k \in DOMAIN Stats'
           /\ Stats'[k].AttestedCount >= Stats[k].AttestedCount]_vars

\* a reload succeeded, and a member of the new committee that did not sign the
\* reloading event still has the count it earned before
C2_Witness ==
    /\ lastReload = "ok"
    /\ procState # "panicked"
    /\ \E i \in 1..Len(committee) :
          /\ ~InSignerSet(lastEvent.bitmap, committee[i].BitmapIndex)
          /\ \A j \in 1..Len(committee) :
                j # i => committee[j].SuiAddress # committee[i].SuiAddress
          /\ CountOf(statsManager, committee[i].SuiAddress) > 0

\* C3: as long as no fatal fault occurred, the attestedCount of every identity
\* key is the number of processed signature-carrying events in which a member of
\* the committee in use carried that key and had its bitmapIndex in the signer set.
C3_CountIsCreditedEvents ==
    procState # "panicked"
    => \A k \in DOMAIN Stats :
           Stats[k].AttestedCount = (IF k \in DOMAIN expected THEN expected[k] ELSE 0)

\* C4: an event with a signer index at or beyond the committee size leaves the
\* processor on the fatal path; the step that gets there credits no validator,
\* and neither it nor any later step emits a snapshot or a dataset record or
\* takes another event.
C4_OutOfRangeIsFatal ==
    [][/\ (lastEvent'.hasSig /\ ~SignerSetInRange(lastEvent'.bitmap, committee'))
          => procState' = "panicked"
       /\ procState' = "panicked"
          => /\ \A k \in DOMAIN Stats' : Stats'[k].AttestedCount = CountOf(statsManager, k)
             /\ snapshotsSent' = snapshotsSent
             /\ reportCount' = reportCount
             /\ dmData' = dmData /\ files' = files
             /\ pendingSnapshot' = pendingSnapshot
             /\ Len(uiChan') <= Len(uiChan)
             /\ procState = "panicked" => nEvents' = nEvents]_vars

\* the fatal path was taken for a signer index equal to the committee size
C4_Witness ==
    /\ procState = "panicked"
    /\ Len(committee) > 0
    /\ InSignerSet(lastEvent.bitmap, Len(committee))
    /\ \A j \in 1..Len(lastEvent.bitmap) : lastEvent.bitmap[j] <= Len(committee)

\* C5: an event triggers a committee reload exactly when it carries signature
\* data and its epoch exceeds currentEpoch; after a successful reload the
\* committee and the epoch are the loader's, every member of the new committee
\* has a ledger entry, and the event is checked and matched against the new
\* committee.
C5_ReloadOnEpochIncrease ==
    [][EventStep =>
          /\ (lastReload' # "none")
             <=> (lastEvent'.hasSig /\ lastEvent'.epoch > currentEpoch)
          /\ lastReload' = "ok" =>
                /\ ~lastLoaded'.err
                /\ committee' = lastLoaded'.committee
                /\ currentEpoch' = lastLoaded'.epoch
                /\ \A i \in 1..Len(lastLoaded'.committee) :
                       lastLoaded'.committee[i].SuiAddress \in DOMAIN Stats'
                /\ (procState' = "panicked")
                   <=> ~SignerSetInRange(lastEvent'.bitmap, lastLoaded'.committee)
                /\ procState' # "panicked" =>
                       \A k \in DOMAIN Stats' :
                           Stats'[k].AttestedCount =
                               CountOf(statsManager, k)
                               + Cardinality(SigningMembers(lastLoaded'.committee, k,
                                                            lastEvent'.bitmap))]_vars

\* a reload succeeded and a member of the new committee was credited
C5_Witness ==
    /\ lastReload = "ok"
    /\ procState # "panicked"
    /\ lastEvent.epoch = currentEpoch
    /\ \E i \in 1..Len(committee) :
          /\ InSignerSet(lastEvent.bitmap, committee[i].BitmapIndex)
          /\ SignedCurrentOf(committee[i].SuiAddress)
          /\ "0xb" \notin { committee[j].SuiAddress : j \in 1..Len(committee) }

\* C6: an event whose reload fails leaves the committee and the epoch as they
\* were before the event, does not stop the processor, and the snapshot and the
\* dataset record of the event carry the old epoch.
C6_FailedReloadKeepsEpoch ==
    [][(EventStep /\ lastReload' = "failed") =>
          /\ committee' = committee
          /\ currentEpoch' = currentEpoch
          /\ procState' # "stopped"
          /\ snapshotsSent' > snapshotsSent
             => uiChan'[Len(uiChan')].Epoch = currentEpoch
          /\ reportCount' > reportCount => dmData'.Epoch = currentEpoch]_vars

\* the committees a load can return for the answers in ReloadWorlds
LoadableCommittees ==
    { LoadEpochValidatorData(e, w).committee : e \in 1..MaxEpoch, w \in ReloadWorlds }

\* C7: InitializeCommitteeStats adds a zero counter for every member whose
\* identity key the ledger lacks, changes no existing entry and not the total,
\* and a second call with the same committee changes nothing more.
C7_InitializePreserves ==
    \A c \in LoadableCommittees :
        LET after == InitializeCommitteeStats(statsManager, c)
            keys == { c[i].SuiAddress : i \in 1..Len(c) }
        IN  /\ DOMAIN after.validatorStats = DOMAIN Stats \cup keys
            /\ \A k \in DOMAIN Stats : after.validatorStats[k] = Stats[k]
            /\ \A k \in keys \ DOMAIN Stats : after.validatorStats[k] = ZeroStats
            /\ after.totalCheckpointsWithSig = statsManager.totalCheckpointsWithSig
            /\ InitializeCommitteeStats(after, c) = after

\* a reload initialised the ledger: the newcomer 0xc has a zero counter, and 0xa
\* and 0xb keep the counts and the flags they had
C7_Witness ==
    /\ lastReload = "ok"
    /\ "0xc" \in DOMAIN Stats /\ Stats["0xc"] = ZeroStats
    /\ Stats["0xa"].AttestedCount > 0
    /\ Stats["0xb"].AttestedCount > 0 /\ Stats["0xb"].SignedCurrent

\* the count of events with signature data the ledger holds
Total == statsManager.totalCheckpointsWithSig

\* C15: the total grows by one in the step that takes an event with signature
\* data, whatever the epoch of the event and the outcome of its reload, and in
\* no other step; it starts at 0, so it is the number of such events taken.
C15_TotalCountsSignedEvents ==
    /\ Total = 0
    /\ [][Total' = Total + (IF EventStep /\ lastEvent'.hasSig THEN 1 ELSE 0)]_vars

\* two events were taken, one without signature data and one whose reload
\* failed: the total is 1
C15_Witness ==
    /\ nEvents = 2
    /\ lastEvent.hasSig
    /\ lastReload = "failed"
    /\ procState # "panicked"
    /\ Total = 1

\* C16: the step that takes an event without signature data changes neither
\* the epoch, the committee, the ledger and its total, nor the dataset; it
\* attempts no reload and emits no snapshot and no report.
C16_UnsignedEventChangesNothing ==
    [][(EventStep /\ ~lastEvent'.hasSig) =>
          /\ UNCHANGED <<currentEpoch, committee, statsManager, dmData, files,
                         reportCount, printed, uiChan, pendingSnapshot,
                         snapshotsSent, procState>>
          /\ lastReload' = "none"]_vars

\* in dataset mode an event without signature data followed a processed one:
\* the flags and the dataset of the first event are still there
C16_Witness ==
    /\ nEvents = 2
    /\ ~lastEvent.hasSig
    /\ datasetOn /\ dmData # NoData /\ reportCount = 1
    /\ \E k \in DOMAIN Stats : Stats[k].SignedCurrent

\* what a reader of the message finds as its ledger view when the ledger is sm
StatsReadFrom(msg, sm) ==
    IF msg.Stats.shared THEN sm.validatorStats ELSE msg.Stats.value

\* the snapshots handed over or being handed over
SnapshotsOut ==
    { uiChan[i] : i \in 1..Len(uiChan) }
    \cup (IF procState = "sending" THEN {pendingSnapshot} ELSE {})

\* C17: no step changes what a reader finds in a snapshot that was already
\* built: its ledger view and its committee list are after the step what they
\* were before, also when the step processes a later event.
C17_SnapshotIsCopy ==
    [][\A m \in SnapshotsOut : \A n \in SnapshotsOut' :
           n.CheckpointSeq = m.CheckpointSeq
           => /\ StatsReadFrom(n, statsManager') = StatsReadFrom(m, statsManager)
              /\ n.Committee = m.Committee]_vars

\* a snapshot waits in the channel while a later event has changed the ledger
\* and replaced the committee
C17_Witness ==
    /\ uiOn
    /\ Len(uiChan) = 1
    /\ procState = "sending"
    /\ uiChan[1].Stats.value # Stats
    /\ uiChan[1].Committee # committee
    /\ StatsReadFrom(uiChan[1], statsManager) = uiChan[1].Stats.value

\* the snapshot built last
Emitted == IF procState = "sending" THEN pendingSnapshot ELSE uiChan[Len(uiChan)]

\* C18: with a snapshot channel, the step that processes an event with
\* signature data without fault builds one snapshot, which goes to the end of
\* the channel at once or, the channel being full, once there is room; it
\* carries the sequence number of the event and the epoch, the committee, the
\* total and the ledger as the step leaves them.  No other step adds a
\* snapshot, so the snapshots are as many as such events and in their order.
C18_OneSnapshotPerEvent ==
    [][uiOn =>
        /\ (EventStep /\ lastEvent'.hasSig /\ procState' # "panicked") =>
              /\ \/ /\ procState' = "running"
                    /\ uiChan' = Append(uiChan, Emitted')
                    /\ snapshotsSent' = snapshotsSent + 1
                 \/ /\ procState' = "sending"
                    /\ Len(uiChan) = UIChanCap
                    /\ uiChan' = uiChan /\ snapshotsSent' = snapshotsSent
              /\ Emitted'.CheckpointSeq = lastEvent'.seq
              /\ Emitted'.Epoch = currentEpoch'
              /\ Emitted'.Committee = committee'
              /\ Emitted'.TotalWithSig = Total'
              /\ StatsReadFrom(Emitted', statsManager') = Stats'
        /\ (EventStep /\ ~(lastEvent'.hasSig /\ procState' # "panicked")) =>
              UNCHANGED <<uiChan, pendingSnapshot, snapshotsSent>>
        /\ (procState = "sending" /\ procState' # "sending") =>
              /\ uiChan' = Append(uiChan, pendingSnapshot)
              /\ snapshotsSent' = snapshotsSent + 1
        /\ (~EventStep /\ procState' = procState) =>
              /\ uiChan' \in {uiChan, Tail(uiChan)}
              /\ snapshotsSent' = snapshotsSent
        /\ procState' # "panicked" =>
              snapshotsSent' + (IF procState' = "sending" THEN 1 ELSE 0) = Total'
        /\ \A i, j \in 1..Len(uiChan') :
              i < j => uiChan'[i].CheckpointSeq < uiChan'[j].CheckpointSeq
    ]_vars

\* the second of two events reloaded the committee; both snapshots were sent
C18_Witness ==
    /\ uiOn
    /\ nEvents = 2
    /\ snapshotsSent = 2
    /\ lastReload = "ok"
    /\ uiChan # <<>>
    /\ uiChan[Len(uiChan)].CheckpointSeq = 2
    /\ uiChan[Len(uiChan)].Committee = committee

\* the voting power of the members of c whose index is in the signer list
RECURSIVE PowerOfSigners(_, _)
PowerOfSigners(c, bitmap) ==
    IF c = <<>> THEN 0
    ELSE (IF InSignerSet(bitmap, Head(c).BitmapIndex) THEN Head(c).VotingPower ELSE 0)
         + PowerOfSigners(Tail(c), bitmap)

\* the voting power of all members of c
RECURSIVE PowerOfAll(_)
PowerOfAll(c) == IF c = <<>> THEN 0 ELSE Head(c).VotingPower + PowerOfAll(Tail(c))

C23_FailedReloadIsRetried ==
    [][(lastReload = "failed" /\ EventStep /\ lastEvent'.hasSig
        /\ lastEvent'.epoch >= lastEvent.epoch) =>
          /\ lastReload' # "none"
          /\ lastReload' = "ok" => committee' = lastLoaded'.committee]_vars

\* C24: no step lowers currentEpoch; an event whose epoch is not greater than
\* currentEpoch attempts no reload and leaves currentEpoch and the committee as
\* they are; a reload that succeeds sets currentEpoch to the epoch it
\* resolved, which is greater than the one before.
C24_EpochNeverDecreases ==
    [][/\ currentEpoch' >= currentEpoch
       /\ (EventStep /\ lastEvent'.hasSig /\ lastEvent'.epoch <= currentEpoch) =>
             /\ lastReload' = "none"
             /\ currentEpoch' = currentEpoch
             /\ committee' = committee
       /\ (EventStep /\ lastReload' = "ok") =>
             /\ currentEpoch' = lastLoaded'.epoch
             /\ currentEpoch' > currentEpoch]_vars

\* a reload took the processor to epoch 2 and replaced the committee; then an
\* event of epoch 1 was processed without a reload
C24_Witness ==
    /\ nEvents = 2
    /\ lastEvent.hasSig /\ lastEvent.epoch = 1
    /\ lastReload = "none"
    /\ currentEpoch = 2
    /\ Len(committee) = 2
    /\ committee[1].ProtocolPubkeyBytes = PkC
    /\ procState # "panicked"

\* C27: once the shutdown signal has fired, Run returns (or has ended on the
\* fatal path), also from a send of a snapshot that found the channel full.
C27_ProcessorStops == ctxDone ~> (procState \in {"stopped", "panicked"})

(***************************************************************************)
(* Properties of the Stream Resilience Loop.                               *)
(***************************************************************************)
\* everything the loop has put on checkpointChan, in the order it was put
Delivered == consumed \o checkpointChan

\* the checkpoint a blocked send holds
Pending == IF pc = "Sending" THEN <<pendingResp>> ELSE <<>>

\* a step in which Recv returned an error
RecvFailed == pc = "Streaming" /\ pc' \notin {"Streaming", "Sending"}

\* a step in which SubscribeCheckpoints returned an error
SubscribeFailed == pc = "Subscribing" /\ pc' \notin {"Subscribing", "Streaming"}

\* C8: while the shutdown signal has not fired, the checkpoints handed to the
\* output channel are exactly the checkpoint-carrying responses received from
\* the successive subscriptions, in order, none dropped and none twice; the
\* only response not yet handed over is the one a blocked send holds.
C8_DeliveredIsReceived ==
    ~ctxDone => received = Delivered \o Pending

\* after an EOF and a resubscription, with one checkpoint consumed, the loop
\* is blocked sending to the full channel
C8_Witness ==
    /\ ~ctxDone
    /\ lastErr = "EOF"
    /\ subscriptions = 2
    /\ pc = "Sending"
    /\ Len(checkpointChan) = ChanCap
    /\ Len(consumed) >= 1
    /\ Len(received) >= 3

\* C9: the loop reaches Terminated only when the shutdown signal has fired or
\* Recv failed with the status Canceled; the channel is closed only in
\* Terminated; every other Recv error goes to Backoff, a failed subscription
\* goes to the wait before the retry, and both waits lead to a new call of
\* SubscribeCheckpoints.
C9_TerminatesOnlyOnCancel ==
    [][ /\ (pc # "Terminated" /\ pc' = "Terminated")
            => (ctxDone \/ (RecvFailed /\ lastErr' = "Canceled"))
        /\ chanClosed' => pc' = "Terminated"
        /\ (RecvFailed /\ ~ctxDone /\ lastErr' # "Canceled") => pc' = "Backoff"
        /\ (SubscribeFailed /\ ~ctxDone) => pc' = "SubscribeBackoff"
        /\ (pc \in {"SubscribeBackoff", "Backoff"} /\ pc' # pc /\ ~ctxDone)
            => pc' = "Idle"
        /\ (pc = "Idle" /\ pc' # pc /\ ~ctxDone) => pc' = "Subscribing"
      ]_vars

\* after a failed subscription and a Recv that failed with Internal, the loop
\* is calling SubscribeCheckpoints again, the channel still open
C9_Witness ==
    /\ ~ctxDone
    /\ ~chanClosed
    /\ pc = "Subscribing"
    /\ attempts >= 3
    /\ subscriptions = 1
    /\ lastErr = "Internal"

\* C10 as stated: once the shutdown signal has fired the loop reaches
\* Terminated with the channel closed, and no subscription is opened after
\* the signal.
C10_NoSubscriptionAfterCancel ==
    /\ ctxDone ~> (pc = "Terminated" /\ chanClosed)
    /\ [][ctxDone => subscriptions' = subscriptions]_vars

\* C10: once the shutdown signal has fired the loop reaches Terminated with
\* the channel closed, from every state; after the signal it starts no call
\* of SubscribeCheckpoints, and the only subscription it can still open is
\* the one whose call was in flight when the signal fired.
C10_CancelTerminates ==
    /\ ctxDone ~> (pc = "Terminated" /\ chanClosed)
    /\ [][ctxDone => /\ attempts' = attempts
                     /\ (pc' = "Subscribing" => pc = "Subscribing")]_vars

\* the signal has fired while a send was blocked on the full channel, after a
\* resubscription, and the loop has terminated and closed the channel
C10_Witness ==
    /\ ctxDone
    /\ pc = "Terminated"
    /\ chanClosed
    /\ Len(checkpointChan) = ChanCap
    /\ Len(received) > Len(Delivered)
    /\ subscriptions >= 2

\* C11: Terminated is absorbing.  The step into Terminated closes the channel,
\* which was open until then; from Terminated on the loop stays there, the
\* channel stays closed, nothing more is put on it (only the consumer takes
\* from it), no Recv returns and no SubscribeCheckpoints is called.
C11_TerminatedIsAbsorbing ==
    [][ /\ (pc # "Terminated" /\ pc' = "Terminated") => (~chanClosed /\ chanClosed')
        /\ pc = "Terminated" =>
              /\ pc' = "Terminated"
              /\ chanClosed /\ chanClosed'
              /\ consumed' \o checkpointChan' = consumed \o checkpointChan
              /\ UNCHANGED <<pendingResp, lastErr, received, attempts,
                             subscriptions, nRecv>>
      ]_vars

\* the loop returned on the status Canceled, and the consumer has taken every
\* checkpoint it had put on the channel
C11_Witness ==
    /\ pc = "Terminated"
    /\ chanClosed
    /\ lastErr = "Canceled"
    /\ ~ctxDone
    /\ checkpointChan = <<>>
    /\ Len(consumed) = Len(received)
    /\ Len(consumed) >= 2

\* the loop is in one of its two waits
Waiting == pc \in {"SubscribeBackoff", "Backoff"}

\* a wait ends, unless the shutdown signal fires, in a new call of
\* SubscribeCheckpoints (as long as the run has attempts left); it ends by
\* itself only after the configured delay, or one second for a configured
\* value that is not positive; no call is made in it.
WaitThenRetry ==
    /\ (Waiting /\ attempts < MaxSubscribes) ~> (pc = "Subscribing" \/ ctxDone)
    /\ [][Waiting =>
            /\ attempts' = attempts
            /\ subscriptions' = subscriptions
            /\ (~Waiting' /\ ~ctxDone) =>
                  waited = (IF retryDelay > 0 THEN retryDelay ELSE 1)]_vars

\* C25 as stated: every stream end, every receive error and every failed
\* subscription attempt is followed by a wait and a new attempt.
C25_EveryFailureRetries ==
    /\ [][((RecvFailed \/ SubscribeFailed) /\ ~ctxDone)
             => (Waiting' /\ waited' = 0)]_vars
    /\ WaitThenRetry

\* C25: every stream end, every receive error other than the status Canceled
\* (which ends the loop) and every failed subscription attempt is followed by
\* a wait of the fixed delay and then, unless the shutdown signal fires, by a
\* new attempt; the delay is the configured one, or one second when that is
\* not positive, and no attempt is made during the wait.
C25_FailureRetriesAfterDelay ==
    /\ [][(((RecvFailed /\ lastErr' # "Canceled") \/ SubscribeFailed) /\ ~ctxDone)
             => (Waiting' /\ waited' = 0)]_vars
    /\ WaitThenRetry

\* with a configured delay that is not positive, the stream ended, the loop
\* waited one second and is calling SubscribeCheckpoints again
C25_Witness ==
    /\ ~ctxDone
    /\ retryDelay <= 0
    /\ lastErr = "EOF"
    /\ waited = 1
    /\ pc = "Subscribing"
    /\ attempts = 2

\* C26: a stream is opened only by the call the loop is waiting in, never
\* while it receives; every response comes from the stream opened last, so
\* the streams of the successive responses never go back to an earlier one.
C26_OneStreamAtATime ==
    /\ [](\A i, j \in 1..Len(receivedFrom) :
              i < j => receivedFrom[i] <= receivedFrom[j])
    /\ [][/\ subscriptions' # subscriptions =>
                /\ subscriptions' = subscriptions + 1
                /\ pc = "Subscribing" /\ pc' = "Streaming"
          /\ nRecv' # nRecv =>
                /\ pc = "Streaming"
                /\ subscriptions >= 1
                /\ receivedFrom' = Append(receivedFrom, subscriptions)
          /\ nRecv' = nRecv => receivedFrom' = receivedFrom]_vars

\* two responses came from the first stream, which then failed, and a third
\* from the stream opened after it
C26_Witness ==
    /\ subscriptions = 2
    /\ receivedFrom = <<1, 1, 2>>
    /\ lastErr = "Unavailable"

(***************************************************************************)
(* Properties of the Committee Reconciler.                                 *)
(***************************************************************************)
\* the committee entries the node returned to the call
FetchedEntries == load.world.committeeInfo.Validators

\* the public keys of the metadata entries that have one
MetadataKeys ==
    LET avs == load.world.sysMeta.ActiveValidators
    IN  { avs[j].ProtocolPubkeyBytes : j \in 1..Len(avs) } \ {""}

\* a string of decimal digits
IsNumber(s) ==
    s # "" /\ \A j \in 1..Len(s) : SubSeq(s, j, j) \in { Digits[d] : d \in 1..10 }

\* the epoch can be determined from the answers
EpochDetermined ==
    /\ load.targetEpoch = 0 => IsNumber(load.world.sysPre.Epoch)
    /\ IsNumber(load.world.committeeInfo.Epoch)
    /\ IsNumber(load.world.sysMeta.Epoch)

\* no RPC of the call failed in transport
CallsAnswered ==
    /\ load.targetEpoch = 0 => ~load.world.sysPre.err
    /\ ~load.world.committeeInfo.err
    /\ ~load.world.sysMeta.err

\* an entry without a public key or with an empty one
EntryMalformed(entry) == Len(entry) = 0 \/ entry[1] = ""

\* C12: the committee of a successful load has one record per fetched
\* committee entry; the record at position i has bitmapIndex i (from 0) and
\* the i-th public key, so the indices are exactly 0..N-1, whatever the
\* metadata.
C12_IndexIsPosition ==
    (load.done /\ ~load.result.err)
    => LET c == load.result.committee
       IN  /\ Len(c) = Len(FetchedEntries)
           /\ \A i \in 1..Len(c) :
                 /\ c[i].BitmapIndex = i - 1
                 /\ c[i].ProtocolPubkeyBytes = FetchedEntries[i][1]
           /\ { c[i].BitmapIndex : i \in 1..Len(c) } = 0..(Len(c) - 1)

\* a load returned two records, the first for a key the metadata lacks
C12_Witness ==
    /\ load.done /\ ~load.result.err
    /\ Len(load.result.committee) = 2
    /\ load.result.committee[1].ProtocolPubkeyBytes = PkX
    /\ load.result.committee[2].ProtocolPubkeyBytes = PkA
    /\ PkA \in MetadataKeys /\ PkX \notin MetadataKeys

\* C13: a committee key without a metadata entry does not fail the load and
\* does not lose its position: the record at that position is a placeholder
\* whose identity key and display name are built from the first 10 bytes of
\* the key, and the result has one record per committee entry.
C13_PlaceholderOnJoinMiss ==
    (load.done /\ CallsAnswered /\ EpochDetermined
        /\ \A i \in 1..Len(FetchedEntries) : ~EntryMalformed(FetchedEntries[i]))
    => /\ ~load.result.err
       /\ Len(load.result.committee) = Len(FetchedEntries)
       /\ \A i \in 1..Len(FetchedEntries) :
             LET key == FetchedEntries[i][1]
                 short == IF Len(key) > 10 THEN SubSeq(key, 1, 10) ELSE key
                 r == load.result.committee[i]
             IN  key \notin MetadataKeys
                 => /\ r.SuiAddress = "unknown-sui-address-for-" \o short
                    /\ r.Name = "Unknown Validator (Pubkey: " \o short \o "...)"
                    /\ r.ProtocolPubkeyBytes = key
                    /\ r.BitmapIndex = i - 1

\* the only metadata entry has an empty key: both committee keys get a placeholder
C13_Witness ==
    /\ load.done /\ ~load.result.err
    /\ load.world.sysMeta.ActiveValidators = <<MetaNoKey>>
    /\ Len(load.result.committee) = 2
    /\ load.result.committee[1].SuiAddress = "unknown-sui-address-for-pkB"
    /\ load.result.committee[2].SuiAddress = "unknown-sui-address-for-0123456789"

\* C14: the load returns an error and no committee when the fetched committee
\* is empty, when an entry has no public key or an empty one, or when the
\* epoch cannot be determined from the answers.
C14_DataErrorsFailLoad ==
    (load.done /\ CallsAnswered
        /\ \/ Len(FetchedEntries) = 0
           \/ \E i \in 1..Len(FetchedEntries) : EntryMalformed(FetchedEntries[i])
           \/ ~EpochDetermined)
    => (load.result.err /\ load.result.committee = <<>>)

(***************************************************************************)
(* Properties of the dataset of an epoch.                                  *)
(***************************************************************************)
\* the validator entries of the epoch being recorded: those in memory, or
\* those of the file written last when the manager was closed
DatasetEntries ==
    IF ds.dm.data # NoData
    THEN [i \in 1..Len(ds.dm.data.Order) |-> ds.dm.data.Validators[ds.dm.data.Order[i]]]
    ELSE IF ds.dm.files # <<>> /\ ds.dm.files[Len(ds.dm.files)].Epoch = ds.epoch
         THEN ds.dm.files[Len(ds.dm.files)].Validators
         ELSE <<>>

\* bit i of a byte sequence, counted from the lowest bit of the first byte
BitSet(bytes, i) ==
    /\ (i \div 8) + 1 <= Len(bytes)
    /\ (bytes[(i \div 8) + 1] \div (2 ^ (i % 8))) % 2 = 1

\* the number of bits set in a byte sequence
SetBits(bytes) == Cardinality({ i \in 0..(8 * Len(bytes) - 1) : BitSet(bytes, i) })

\* C20: in the dataset of an epoch, bit i of a validator's entry is set exactly
\* when the validator was in the signer set of the i-th checkpoint recorded in
\* the epoch; signed is the number of set bits, total the number of checkpoints
\* recorded, and signed <= total.
C20_DatasetBits ==
    ds.history # <<>> =>
        \A k \in 1..Len(ds.committee) :
            \E n \in 1..Len(DatasetEntries) :
                LET v == ds.committee[k]
                    entry == DatasetEntries[n]
                IN  /\ entry.Address = v.SuiAddress
                    /\ entry.Total = Len(ds.history)
                    /\ \A i \in 1..Len(ds.history) :
                          BitSet(entry.Bitmap, i - 1)
                              <=> InSignerSet(ds.history[i], v.BitmapIndex)
                    /\ entry.Signed = SetBits(entry.Bitmap)
                    /\ entry.Signed <= entry.Total

(***************************************************************************)
(* Properties of the dataset files the processor writes.                   *)
(***************************************************************************)
\* the step of Run that recorded its event in the dataset
RecordStep == reportCount' = reportCount + 1

\* the key of a file or of the data in memory
FileKey(d) == <<d.Epoch, d.StartCheckpoint, d.EndCheckpoint>>

\* what a step does to the range of the data in memory and to the files, when
\* a checkpoint recorded under the epoch recordEpoch belongs to the data of
\* that epoch
KeysFollowRecords(recordEpoch) ==
    /\ RecordStep =>
          /\ dmData'.Epoch = recordEpoch
          /\ dmData'.EndCheckpoint = lastEvent'.seq
          /\ dmData'.StartCheckpoint =
                (IF dmData # NoData /\ dmData.Epoch = recordEpoch
                 THEN dmData.StartCheckpoint ELSE lastEvent'.seq)
          /\ dmData'.StartCheckpoint <= dmData'.EndCheckpoint
    /\ (~RecordStep /\ dmData' # NoData) => dmData' = dmData
    /\ files' # files =>
          /\ dmData # NoData
          /\ Len(files') = Len(files) + 1
          /\ SubSeq(files', 1, Len(files)) = files
          /\ FileKey(files'[Len(files')]) = FileKey(dmData)
          /\ files'[Len(files')].StartCheckpoint <= files'[Len(files')].EndCheckpoint

\* C21 as stated: a file is keyed by the epoch of every checkpoint recorded in
\* it, by the sequence number of the first of them and by that of the last.
C21_KeyIsCheckpointEpoch == [][KeysFollowRecords(lastEvent'.epoch)]_vars

\* C21: a file is keyed by the epoch the processor held when it recorded each
\* of its checkpoints (the epoch of the checkpoint, unless the checkpoint is of
\* an earlier epoch or its reload failed), by the sequence number of the first
\* checkpoint recorded under that epoch and by that of the last; start <= end.
C21_KeyIsRecordEpoch == [][KeysFollowRecords(currentEpoch')]_vars

\* two checkpoints were recorded, the second of an epoch before the one the
\* processor holds, and the stop wrote them to one file of that epoch
C21_Witness ==
    /\ procState = "stopped"
    /\ lastEvent.hasSig /\ lastEvent.epoch < currentEpoch
    /\ Len(files) = 1
    /\ FileKey(files[1]) = <<currentEpoch, 1, 2>>

\* the data d covers the recorded checkpoint r
Covers(d, r) ==
    d.Epoch = r.epoch /\ d.StartCheckpoint <= r.seq /\ r.seq <= d.EndCheckpoint

\* the places that hold the recorded checkpoint r: files of fs, and 0 for the
\* data d in memory
Holders(fs, d, r) ==
    { i \in 1..Len(fs) : Covers(fs[i], r) }
    \cup (IF d # NoData /\ Covers(d, r) THEN {0} ELSE {})

\* the file that holds what the data d holds
FlushOf(d) ==
    [Epoch |-> d.Epoch, StartCheckpoint |-> d.StartCheckpoint,
     EndCheckpoint |-> d.EndCheckpoint,
     Validators |-> [i \in 1..Len(d.Order) |-> d.Validators[d.Order[i]]]]

RequestedEpoch ==
    IF load.targetEpoch = 0 THEN ParseUint(load.world.sysPre.Epoch).val
    ELSE load.targetEpoch

\* the call's answers let it succeed, the epoch of the metadata left aside
LoadableAnswers ==
    /\ CallsAnswered /\ EpochDetermined
    /\ \A i \in 1..Len(FetchedEntries) : ~EntryMalformed(FetchedEntries[i])

\* the same call, had the metadata come with the epoch of the committee
MatchingMetadataLoad ==
    LoadEpochValidatorData(load.targetEpoch,
        [load.world EXCEPT !.sysMeta.Epoch = FormatUint(RequestedEpoch)])

\* C28: a call whose metadata reports another epoch than the committee's
\* succeeds; its resolved epoch is the committee's, and its records are one
\* per committee entry, in the order of the entries, with the index of the
\* position: the same epoch, number, keys and indices as with metadata of the
\* committee's epoch.
C28_MetadataEpochMismatch ==
    (load.done /\ LoadableAnswers
        /\ ParseUint(load.world.sysMeta.Epoch).val # RequestedEpoch)
    => LET c == load.result.committee
           m == MatchingMetadataLoad
       IN  /\ ~load.result.err
           /\ load.result.epoch = RequestedEpoch
           /\ Len(c) = Len(FetchedEntries)
           /\ \A i \in 1..Len(c) :
                 /\ c[i].BitmapIndex = i - 1
                 /\ c[i].ProtocolPubkeyBytes = FetchedEntries[i][1]
           /\ ~m.err
           /\ m.epoch = load.result.epoch
           /\ Len(m.committee) = Len(c)
           /\ \A i \in 1..Len(c) :
                 /\ m.committee[i].BitmapIndex = c[i].BitmapIndex
                 /\ m.committee[i].ProtocolPubkeyBytes = c[i].ProtocolPubkeyBytes

\* a call for epoch 3 got metadata of epoch 2 and returned two records for
\* epoch 3, one with the name from the metadata and one placeholder
C28_Witness ==
    /\ load.done /\ ~load.result.err
    /\ load.targetEpoch = 3
    /\ load.world.sysMeta.Epoch = "2"
    /\ load.result.epoch = 3
    /\ Len(load.result.committee) = 2
    /\ load.result.committee[1].Name = "alice"
    /\ load.result.committee[2].SuiAddress = "unknown-sui-address-for-0123456789"

\* C29: a call with epoch 0 asks the node for the committee of the epoch the
\* system state fetched first reports, a call with another epoch for the
\* committee of that epoch; the resolved epoch of a successful call is the
\* epoch it asked for, whatever epoch the answer carries.
C29_ResolvedIsRequested ==
    load.done =>
        /\ (load.targetEpoch = 0 /\ ~load.world.sysPre.err
               /\ IsNumber(load.world.sysPre.Epoch))
           => load.queried = load.world.sysPre.Epoch
        /\ load.targetEpoch # 0 =>
              /\ IsNumber(load.queried)
              /\ ParseUint(load.queried).val = load.targetEpoch
        /\ ~load.result.err =>
              /\ IsNumber(load.queried)
              /\ load.result.epoch = ParseUint(load.queried).val

\* a call with epoch 0 found epoch 1 in the system state, asked for the
\* committee of epoch 1, was answered with one of epoch 2 and returned epoch 1
C29_Witness ==
    /\ load.done /\ ~load.result.err
    /\ load.targetEpoch = 0
    /\ load.queried = "1"
    /\ load.world.committeeInfo.Epoch = "2"
    /\ load.result.epoch = 1
    /\ Len(load.result.committee) = 2

(***************************************************************************)
(* Properties of the map a caller of the ledger holds.                     *)
(***************************************************************************)
\* C30: what the holder of a map returned by GetAllStats finds in it is not
\* changed by a later InitializeCommitteeStats, ResetSignedCurrent or
\* UpdateValidatorSigned of the ledger.
C30_ViewIsNotLive ==
    [][(view # <<>> /\ view' = view)
       => ReadView(view'[1], statsManager') = ReadView(view[1], statsManager)]_vars

(***************************************************************************)
(* Properties of the operations of the Uptime Ledger, called in any order. *)
(***************************************************************************)
\* C31: UpdateValidatorSigned(k) with k in the ledger sets the flag of k, adds
\* one to its count and leaves every other entry and the total as they were;
\* with k not in the ledger it leaves the ledger as it was, no entry added.
C31_RecordSignedFrame ==
    ledgerCall.op = "UpdateValidatorSigned" =>
        LET b == ledgerCall.before
            k == ledgerCall.key
        IN  /\ statsManager.totalCheckpointsWithSig = b.totalCheckpointsWithSig
            /\ DOMAIN statsManager.validatorStats = DOMAIN b.validatorStats
            /\ \A a \in DOMAIN b.validatorStats :
                  statsManager.validatorStats[a] =
                      IF a = k
                      THEN [AttestedCount |-> b.validatorStats[a].AttestedCount + 1,
                            SignedCurrent |-> TRUE]
                      ELSE b.validatorStats[a]

\* a key with one attestation is credited a second one while another entry
\* holds a count and a flag, and events have been counted
C31_Witness ==
    /\ ledgerCall.op = "UpdateValidatorSigned"
    /\ ledgerCall.key \in DOMAIN ledgerCall.before.validatorStats
    /\ ledgerCall.before.validatorStats[ledgerCall.key].AttestedCount = 1
    /\ statsManager.validatorStats[ledgerCall.key].AttestedCount = 2
    /\ statsManager.totalCheckpointsWithSig = 1
    /\ \E a \in DOMAIN statsManager.validatorStats :
          /\ a # ledgerCall.key
          /\ statsManager.validatorStats[a].SignedCurrent

CommitteeKeys(c) == { c[i].SuiAddress : i \in 1..Len(c) }

\* C32: after ResetSignedCurrent(c) a second ResetSignedCurrent(c) changes
\* nothing; the call clears the flag of the entries whose key is the key of a
\* member of c and of no other, changes no count and not the total, and adds
\* no entry for a member the ledger does not know.
C32_ResetCurrentFrame ==
    ledgerCall.op = "ResetSignedCurrent" =>
        LET b == ledgerCall.before
            c == ledgerCall.committee
        IN  /\ ResetSignedCurrent(statsManager, c) = statsManager
            /\ statsManager.totalCheckpointsWithSig = b.totalCheckpointsWithSig
            /\ DOMAIN statsManager.validatorStats = DOMAIN b.validatorStats
            /\ \A a \in DOMAIN b.validatorStats :
                  statsManager.validatorStats[a] =
                      IF a \in CommitteeKeys(c)
                      THEN [b.validatorStats[a] EXCEPT !.SignedCurrent = FALSE]
                      ELSE b.validatorStats[a]

\* a committee with a member the ledger does not know is reset: the flag of
\* a credited member is cleared, the flag of an entry outside it stays set
C32_Witness ==
    /\ ledgerCall.op = "ResetSignedCurrent"
    /\ \E a \in CommitteeKeys(ledgerCall.committee) :
          a \notin DOMAIN statsManager.validatorStats
    /\ \E a \in CommitteeKeys(ledgerCall.committee) \cap DOMAIN statsManager.validatorStats :
          /\ ledgerCall.before.validatorStats[a].SignedCurrent
          /\ ~statsManager.validatorStats[a].SignedCurrent
          /\ statsManager.validatorStats[a].AttestedCount = 1
    /\ \E a \in DOMAIN statsManager.validatorStats \ CommitteeKeys(ledgerCall.committee) :
          statsManager.validatorStats[a].SignedCurrent

(***************************************************************************)
(* Properties of the Bitmap Matcher.                                       *)
(***************************************************************************)
\* the index, as a number, is an element of the list
OccursIn(bitmap, v) ==
    /\ ~v.neg
    /\ v.hi = 0
    /\ \E j \in 1..Len(bitmap) : bitmap[j] = v.lo

Elements(bitmap) == { bitmap[j] : j \in 1..Len(bitmap) }

\* C33: IsValidatorSigned(bitmap, i) is true exactly when i is not negative
\* and i is an element of bitmap; it is false for every negative i; lists
\* with the same elements, in whatever order and however often repeated,
\* give the same answer.
C33_MatcherIsMembership ==
    match.done =>
        /\ match.result <=>
              (~match.validatorIndex.neg /\ OccursIn(match.bitmap, match.validatorIndex))
        /\ match.validatorIndex.neg => ~match.result
        /\ \A b \in MatcherBitmaps :
              Elements(b) = Elements(match.bitmap)
              => IsValidatorSigned(b, match.validatorIndex) = match.result

(***************************************************************************)
(* Properties of the ledger the processor keeps over a run.                *)
(***************************************************************************)
\* C34: in every state of a run the count of every entry of the ledger is at
\* most the number of events with signature data counted so far.
C34_CountAtMostTotal ==
    \A k \in DOMAIN Stats :
        Stats[k].AttestedCount <= statsManager.totalCheckpointsWithSig

(***************************************************************************)
(* Properties of the identity keys the Committee Reconciler hands out.     *)
(***************************************************************************)
\* C35: in a committee returned by LoadEpochValidatorData whose public keys
\* are pairwise distinct the identity keys are pairwise distinct as well:
\* no two positions share a ledger entry.
C35_IdentityKeysDistinct ==
    (load.done /\ ~load.result.err) =>
        LET c == load.result.committee
        IN  (\A i, j \in 1..Len(c) :
                i # j => c[i].ProtocolPubkeyBytes # c[j].ProtocolPubkeyBytes)
            => (\A i, j \in 1..Len(c) : i # j => c[i].SuiAddress # c[j].SuiAddress)

\* C36: after an event with signature data is processed without fault, every
\* entry of the ledger whose flag is set has the key of a member of the
\* committee in use whose bitmapIndex is in the signer list of that event; an
\* entry of a validator that left the committee at a reload is not set.
C36_SignedAreCurrentSigners ==
    (nEvents > 0 /\ lastEvent.hasSig /\ procState # "panicked") =>
        \A k \in DOMAIN Stats :
            Stats[k].SignedCurrent =>
                \E i \in 1..Len(committee) :
                    /\ committee[i].SuiAddress = k
                    /\ InSignerSet(lastEvent.bitmap, committee[i].BitmapIndex)

\* C37: at startup and in every state after it every member of the committee
\* in use has an entry in the ledger, and no step takes an identity key out
\* of the ledger, a reload that drops validators from the committee included.
C37_MembersHaveEntries ==
    /\ [](\A i \in 1..Len(committee) : committee[i].SuiAddress \in DOMAIN Stats)
    /\ [][DOMAIN Stats \subseteq DOMAIN Stats']_vars

\* a reload replaced the committee: a validator that left it still has its
\* entry, and the one that joined has one
C37_Witness ==
    /\ lastReload = "ok"
    /\ Len(committee) = 2
    /\ \E k \in DOMAIN Stats : k \notin CommitteeKeys(committee)
    /\ CommitteeKeys(committee) \subseteq DOMAIN Stats
    /\ Cardinality(DOMAIN Stats) = 3

(***************************************************************************)
(* Properties of the channel between the subscriber and the processor.     *)
(***************************************************************************)
\* every checkpoint handed to the channel has been received from it and
\* processed by Run, in the order of arrival: none is left in the channel
AllProcessed ==
    /\ checkpointChan = <<>>
    /\ consumed = SubSeq(received, 1, Len(consumed))
    /\ nEvents = Len(consumed)

C39_SignedAtMostCommittee ==
    dashboard.checkpointSeq > 0 =>
        dashboard.signedValidators <= dashboard.totalValidators

====
